---------------------------- MODULE Spec2Model ----------------------------
(***************************************************************************)
(* Model of the retrieval-and-answer pipeline of armonia_api:              *)
(*   RagService (query, queryAcrossKnowledgeBases, queryGlobal),           *)
(*   PostgresVectorStore, the prompt and source builders, the OpenAI       *)
(*   web-search client and LLMProviderService.getLLM.                      *)
(*                                                                         *)
(* Strings are sequences of tokens (each token a TLA+ string); the empty  *)
(* JavaScript string is <<>> and null/undefined is the one-token sequence  *)
(* Null.  Similarity scores are kept in ten-thousandths (the four decimals *)
(* that buildSources prints).                                              *)
(***************************************************************************)
EXTENDS Integers, Sequences, FiniteSets, Bags, TLC

(***************************************************************************)
(* Bounds of the model.                                                    *)
(***************************************************************************)
\* largest number of rows kb_documents holds at one time
MaxChunks == 3

\* largest magnitude of the RAG_TOP_K settings tried
MaxSetting == 14

\* largest number of items of the chat histories tried
MaxHistory == 14

\* longest instructions text, in characters, given to trimInstructions on its own
MaxText == 4

\* largest maxChars given to trimInstructions on its own
MaxCut == 5

\* largest number of documents in one upload or reindex
MaxBatch == 2

\* largest number of chunks the splitter makes of one document
MaxPieces == 2

\* the concurrent callers of the schema guard and of the configuration service
MaxCallers == 2

\* the updates of the stored configuration
MaxWrites == 2

\* the collections of one queryAcrossKnowledgeBases call
MaxKbs == 5

\* the getLLM calls
MaxLLMCalls == 3

\* the getDefaultAIConfig calls made for themselves
MaxConfigCalls == 3

\* getCacheTtlMs: Number(process.env.AI_CONFIG_CACHE_MS || 5000)
DefaultCacheTtlMs == 5000

(***************************************************************************)
(* Program constants.                                                      *)
(***************************************************************************)
DefaultTopK == 4
MinTopK == 2
MaxTopK == 12
MinPerKbK == 2
MaxPerKbK == 8
HistoryWindow == 12
DefaultMaxInstrChars == 6000

(***************************************************************************)
(* JavaScript values.                                                      *)
(***************************************************************************)
Null == <<"<null>">>

Min(a, b) == IF a <= b THEN a ELSE b

Max(a, b) == IF a >= b THEN a ELSE b

\* JavaScript truthiness of a string-or-null value
Truthy(s) == s # Null /\ s # <<>>

\* a ?? b
Coalesce(a, b) == IF a = Null THEN b ELSE a

\* String.prototype.slice(0, n) for n >= 0
Slice(s, n) == SubSeq(s, 1, Min(n, Len(s)))

\* Array.prototype.slice(-n)
LastN(s, n) == SubSeq(s, Max(1, Len(s) - n + 1), Len(s))

RECURSIVE Join(_, _)
\* Array.prototype.join of a sequence of strings
Join(parts, sep) ==
  IF parts = <<>> THEN <<>>
  ELSE IF Len(parts) = 1 THEN parts[1]
  ELSE parts[1] \o sep \o Join(Tail(parts), sep)

RECURSIVE TrimStart(_)
TrimStart(s) == IF s # <<>> /\ Head(s) = " " THEN TrimStart(Tail(s)) ELSE s

RECURSIVE TrimEnd(_)
TrimEnd(s) ==
  IF s # <<>> /\ s[Len(s)] = " " THEN TrimEnd(SubSeq(s, 1, Len(s) - 1)) ELSE s

\* String.prototype.trim
Trim(s) == TrimEnd(TrimStart(s))

\* the elements of a sequence
Range(s) == {s[i] : i \in DOMAIN s}

\* Array.from(new Set(xs)): first occurrences, in order
RECURSIVE Unique(_)
Unique(s) ==
  IF s = <<>> THEN <<>>
  ELSE LET init == Unique(SubSeq(s, 1, Len(s) - 1))
           last == s[Len(s)]
       IN IF last \in Range(init) THEN init ELSE Append(init, last)


(***************************************************************************)
(* JavaScript numbers read from environment variables.  A number is        *)
(* [fin, n]: fin is Number.isFinite, n its value when finite.  The model   *)
(* covers integer decimal literals, "Infinity" and text that is no number; *)
(* an environment variable is a string or Null (unset).                    *)
(***************************************************************************)
Digits == <<"0", "1", "2", "3", "4", "5", "6", "7", "8", "9">>

IsDigit(c) == \E i \in DOMAIN Digits : Digits[i] = c

DigitValue(c) == (CHOOSE i \in DOMAIN Digits : Digits[i] = c) - 1

RECURSIVE DecimalValue(_)
DecimalValue(s) ==
  IF s = <<>> THEN 0
  ELSE 10 * DecimalValue(SubSeq(s, 1, Len(s) - 1)) + DigitValue(s[Len(s)])

NotFinite == [fin |-> FALSE, n |-> 0]

Finite(i) == [fin |-> TRUE, n |-> i]

\* Number(text) for a string
JsNumber(text) ==
  LET t == Trim(text)
      neg == t # <<>> /\ Head(t) = "-"
      body == IF neg THEN Tail(t) ELSE t
  IN IF t = <<>> THEN Finite(0)
     ELSE IF body = <<"Infinity">> THEN NotFinite
     ELSE IF body # <<>> /\ \A i \in DOMAIN body : IsDigit(body[i])
          THEN Finite(IF neg THEN 0 - DecimalValue(body) ELSE DecimalValue(body))
     ELSE NotFinite

\* Number(process.env.X || dflt)
EnvNumber(raw, dflt) == IF Truthy(raw) THEN JsNumber(raw) ELSE Finite(dflt)

\* a variant of EffectiveTopK that omits Math.min(..., 12)
EffectiveTopKUncapped(raw) ==
  LET envTopK == EnvNumber(raw, DefaultTopK)
  IN IF envTopK.fin THEN Max(envTopK.n, MinTopK) ELSE DefaultTopK

\* const topK = Number.isFinite(envTopK) ? Math.min(Math.max(envTopK, 2), 12) : 4
EffectiveTopK(raw) ==
  LET envTopK == EnvNumber(raw, DefaultTopK)
  IN IF envTopK.fin THEN Min(Max(envTopK.n, MinTopK), MaxTopK) ELSE DefaultTopK

\* Math.ceil(a / b) for a >= 0, b > 0
CeilDiv(a, b) == (a + b - 1) \div b

\* a variant of PerKbK that divides topK, not twice topK
PerKbKWithoutDoubling(topK, n) == Min(MaxPerKbK, Max(MinPerKbK, CeilDiv(topK, n)))

\* const perKbK = Math.min(8, Math.max(2, Math.ceil((topK * 2) / uniqueKbIds.length)))
PerKbK(topK, n) == Min(MaxPerKbK, Max(MinPerKbK, CeilDiv(topK * 2, n)))

(***************************************************************************)
(* services/rag/ragPrompt.ts                                               *)
(***************************************************************************)
\* a variant of trimInstructions that marks a cut with an ellipsis
trimInstructionsWithEllipsis(promptInstructions, maxChars) ==
  IF ~Truthy(promptInstructions) THEN Null
  ELSE IF ~maxChars.fin \/ maxChars.n <= 0 THEN promptInstructions
  ELSE IF Len(promptInstructions) > maxChars.n
    THEN Slice(promptInstructions, maxChars.n) \o <<"...">>
    ELSE promptInstructions

trimInstructions(promptInstructions, maxChars) ==
  IF ~Truthy(promptInstructions) THEN Null
  ELSE IF ~maxChars.fin \/ maxChars.n <= 0 THEN promptInstructions
  ELSE Slice(promptInstructions, maxChars.n)

\* [...].filter(Boolean).join('\n\n')
JoinRules(rules) == Join(SelectSeq(rules, LAMBDA r : Truthy(r)), <<"\n\n">>)

buildSystemRules(trimmedInstructions) ==
  JoinRules(<<
    IF Truthy(trimmedInstructions)
      THEN <<"Knowledge base instructions:\n">> \o trimmedInstructions ELSE Null,
    <<"You are a RAG assistant. Answer using ONLY the provided CONTEXT and the conversation history.">>,
    <<"Return the answer in Markdown ONLY.">>,
    <<"Do NOT add your own \"Sources\" section. The system will append canonical Sources separately.">> >>)

buildGlobalSystemRules(trimmedInstructions) ==
  JoinRules(<<
    IF Truthy(trimmedInstructions)
      THEN <<"Global instructions:\n">> \o trimmedInstructions ELSE Null,
    <<"You are an assistant. The user has no knowledge base attached, so you must answer using general knowledge.">>,
    <<"If you are unsure, say so and ask a clarifying question. Do not invent citations.">>,
    <<"Return the answer in Markdown ONLY.">>,
    <<"Do NOT add your own \"Sources\" section. The system will append canonical Sources separately.">> >>)

\* a chat history argument: historyRaw?: ChatHistoryItem[]
NoHistory == [defined |-> FALSE, items |-> <<>>]

HistoryOf(items) == [defined |-> TRUE, items |-> items]

MessageType(role) ==
  IF role = "system" THEN "system" ELSE IF role = "assistant" THEN "ai" ELSE "human"

RECURSIVE HistoryToMessages(_)
HistoryToMessages(items) ==
  IF items = <<>> THEN <<>>
  ELSE LET item == Head(items)
           rest == HistoryToMessages(Tail(items))
       IN IF ~Truthy(item.content) THEN rest
          ELSE <<[role |-> MessageType(item.role), content |-> item.content]>> \o rest

\* a variant of buildHistoryMessages without slice(-12)
buildHistoryMessagesUnsliced(historyRaw) ==
  IF ~historyRaw.defined THEN <<>>
  ELSE HistoryToMessages(historyRaw.items)

buildHistoryMessages(historyRaw) ==
  IF ~historyRaw.defined THEN <<>>
  ELSE HistoryToMessages(LastN(historyRaw.items, HistoryWindow))

buildMessages(systemRules, history, context, question) ==
  <<[role |-> "system", content |-> systemRules]>>
  \o history
  \o <<[role |-> "human",
        content |-> <<"CONTEXT:\n\n">> \o context \o <<"\n\nUSER QUESTION:\n">>
                    \o question \o <<"\n\nRemember: output Markdown.">>]>>

buildGlobalMessages(systemRules, history, question) ==
  <<[role |-> "system", content |-> systemRules]>>
  \o history
  \o <<[role |-> "human",
        content |-> <<"USER QUESTION:\n">> \o question
                    \o <<"\n\nRemember: output Markdown.">>]>>

\* history.map(m => `${typeName}: ${content}`).join('\n')
HistoryLines(history) ==
  Join([i \in DOMAIN history |-> <<history[i].role, ": ">> \o history[i].content],
       <<"\n">>)

\* the flattened prompt of query and queryAcrossKnowledgeBases
FlatScopedPrompt(systemRules, history, context, question) ==
  systemRules \o <<"\n\n">> \o HistoryLines(history) \o <<"\n\nCONTEXT:\n\n">>
  \o context \o <<"\n\nQUESTION: ">> \o question \o <<"\n\nReturn Markdown MD.">>

\* the flattened prompt of queryGlobal
FlatGlobalPrompt(systemRules, history, question) ==
  systemRules \o <<"\n\n">> \o HistoryLines(history) \o <<"\n\nQUESTION: ">>
  \o question \o <<"\n\nReturn Markdown MD.">>

\* toText(resp): the content when it is a string, String(resp) otherwise
toText(resp) == IF resp.isString THEN resp.content ELSE <<"[object Object]">>

(***************************************************************************)
(* services/rag/ragSources (second half of globalPrompt.ts)                *)
(* A retrieval result is [doc, score, kb]: doc = [pageContent, metadata],  *)
(* metadata = [documentId, fileName, sourceUrl]; kb is the kb_id of the    *)
(* row the result was read from (not visible to the program).              *)
(***************************************************************************)
\* docNameMap[docId], undefined when absent
Lookup(map, key) == IF key \in DOMAIN map THEN map[key] ELSE Null

\* loadDocumentNames: acc[doc.id] = doc.fileName || ''
loadDocumentNames(documentIds, table) ==
  [id \in documentIds \cap DOMAIN table |->
     IF Truthy(table[id]) THEN table[id] ELSE <<>>]

\* doc.metadata?.documentId ? String(doc.metadata.documentId) : null
DocIdOf(doc) == IF Truthy(doc.metadata.documentId) THEN doc.metadata.documentId ELSE Null

\* doc.metadata?.fileName || (docId ? docNameMap[docId] : null)
FileNameOf(doc, docNameMap) ==
  IF Truthy(doc.metadata.fileName) THEN doc.metadata.fileName
  ELSE IF DocIdOf(doc) # Null THEN Lookup(docNameMap, DocIdOf(doc)) ELSE Null

SourceUrlOf(doc) == IF Truthy(doc.metadata.sourceUrl) THEN doc.metadata.sourceUrl ELSE Null

\* const key = docId || sourceUrl || fileName || 'unknown'
SourceKey(doc, docNameMap) ==
  IF Truthy(DocIdOf(doc)) THEN DocIdOf(doc)
  ELSE IF Truthy(SourceUrlOf(doc)) THEN SourceUrlOf(doc)
  ELSE IF Truthy(FileNameOf(doc, docNameMap)) THEN FileNameOf(doc, docNameMap)
  ELSE <<"unknown">>

SourceLabel(doc, docNameMap) ==
  LET fileName == FileNameOf(doc, docNameMap)
      sourceUrl == SourceUrlOf(doc)
  IN IF Truthy(fileName) /\ Truthy(sourceUrl)
       THEN <<"[">> \o fileName \o <<"](">> \o sourceUrl \o <<")">>
     ELSE IF Truthy(fileName) THEN fileName
     ELSE <<"unknown">>

RECURSIVE DedupSourcesKeepAll(_, _, _, _)
\* a variant of DedupSources without the check of seen
DedupSourcesKeepAll(results, docNameMap, seen, sources) ==
  IF results = <<>> THEN sources
  ELSE DedupSourcesKeepAll(Tail(results), docNameMap, seen,
         Append(sources, [idx |-> Len(sources) + 1,
                          label |-> SourceLabel(Head(results).doc, docNameMap)]))

RECURSIVE DedupSourcesFromZero(_, _, _, _)
\* a variant of DedupSources that numbers the sources from 0
DedupSourcesFromZero(results, docNameMap, seen, sources) ==
  IF results = <<>> THEN sources
  ELSE LET doc == Head(results).doc
           key == SourceKey(doc, docNameMap)
       IN IF key \in seen
            THEN DedupSourcesFromZero(Tail(results), docNameMap, seen, sources)
            ELSE DedupSourcesFromZero(Tail(results), docNameMap, seen \cup {key},
                   Append(sources, [idx |-> Len(sources),
                                    label |-> SourceLabel(doc, docNameMap)]))

RECURSIVE DedupSources(_, _, _, _)
\* the loop of buildSources over the results, seen = keys met so far
DedupSources(results, docNameMap, seen, sources) ==
  IF results = <<>> THEN sources
  ELSE LET doc == Head(results).doc
           key == SourceKey(doc, docNameMap)
       IN IF key \in seen
            THEN DedupSources(Tail(results), docNameMap, seen, sources)
            ELSE DedupSources(Tail(results), docNameMap, seen \cup {key},
                   Append(sources, [idx |-> Len(sources) + 1,
                                    label |-> SourceLabel(doc, docNameMap)]))

Pad4(n) ==
  <<Digits[((n \div 1000) % 10) + 1], Digits[((n \div 100) % 10) + 1],
    Digits[((n \div 10) % 10) + 1], Digits[(n % 10) + 1]>>

\* Number(score).toFixed(4), score in ten-thousandths
Fixed4(score) ==
  LET a == IF score < 0 THEN 0 - score ELSE score
  IN (IF score < 0 THEN <<"-">> ELSE <<>>) \o <<ToString(a \div 10000), ".">>
     \o Pad4(a % 10000)

\* a variant of ContextBlock that numbers the blocks from 0
ContextBlockFromZero(result, idx, docNameMap) ==
  LET docId == DocIdOf(result.doc)
      fileName == FileNameOf(result.doc, docNameMap)
      parts == (IF Truthy(fileName) THEN <<fileName>> ELSE <<>>)
               \o (IF Truthy(docId) THEN << <<"documentId=">> \o docId >> ELSE <<>>)
      source == IF parts # <<>> THEN Join(parts, <<" | ">>) ELSE <<"unknown">>
  IN <<"### Source ", ToString(idx - 1), " (score=">> \o Fixed4(result.score)
     \o <<"): ">> \o source \o <<"\n\n">> \o result.doc.pageContent

ContextBlock(result, idx, docNameMap) ==
  LET docId == DocIdOf(result.doc)
      fileName == FileNameOf(result.doc, docNameMap)
      parts == (IF Truthy(fileName) THEN <<fileName>> ELSE <<>>)
               \o (IF Truthy(docId) THEN << <<"documentId=">> \o docId >> ELSE <<>>)
      source == IF parts # <<>> THEN Join(parts, <<" | ">>) ELSE <<"unknown">>
  IN <<"### Source ", ToString(idx), " (score=">> \o Fixed4(result.score)
     \o <<"): ">> \o source \o <<"\n\n">> \o result.doc.pageContent

buildSources(results, docNameMap) ==
  [sources |-> DedupSources(results, docNameMap, {}, <<>>),
   context |-> Join([i \in DOMAIN results |-> ContextBlock(results[i], i, docNameMap)],
                    <<"\n\n---\n\n">>)]

formatSourcesSection(sources) ==
  IF sources = <<>> THEN <<>>
  ELSE <<"\n\nSources:\n">>
       \o Join([i \in DOMAIN sources |->
                  <<"- Source ", ToString(sources[i].idx), ": ">> \o sources[i].label],
               <<"\n">>)

(***************************************************************************)
(* services/openaiWebSearch.ts                                             *)
(* A Responses API body is [isRecord, output_text, output]; an output item *)
(* is [type, content], a content part [text, content, annotations], an     *)
(* annotation [type, url, title, nestedUrl, nestedTitle] (the nested pair  *)
(* is ann.url_citation).                                                   *)
(***************************************************************************)
AnnotationUrl(ann) ==
  IF ann.url # Null THEN ann.url
  ELSE IF ann.nestedUrl # Null THEN ann.nestedUrl ELSE <<>>

AnnotationTitle(ann) ==
  IF ann.title # Null THEN ann.title
  ELSE IF ann.nestedTitle # Null THEN ann.nestedTitle ELSE Null

\* a variant of MapSet that keeps an entry per call, as an array would
MapSetAppends(citations, c) == Append(citations, c)

\* citations.set(url, {url, title}) on an insertion-ordered Map
MapSet(citations, c) ==
  IF \E i \in DOMAIN citations : citations[i].url = c.url
    THEN [i \in DOMAIN citations |-> IF citations[i].url = c.url THEN c ELSE citations[i]]
    ELSE Append(citations, c)

RECURSIVE AnnotationCitations(_, _)
AnnotationCitations(annotations, citations) ==
  IF annotations = <<>> THEN citations
  ELSE LET ann == Head(annotations)
           url == AnnotationUrl(ann)
       IN IF ann.type \notin {"url_citation", "url-citation"} \/ ~Truthy(url)
            THEN AnnotationCitations(Tail(annotations), citations)
            ELSE AnnotationCitations(Tail(annotations),
                   MapSet(citations, [url |-> url, title |-> AnnotationTitle(ann)]))

RECURSIVE PartsScan(_, _)
\* the loop over the content parts of one message item; acc = [textParts, citations]
PartsScan(parts, acc) ==
  IF parts = <<>> THEN acc
  ELSE LET part == Head(parts)
           maybeText == Coalesce(part.text, part.content)
           texts == IF maybeText # Null /\ Truthy(Trim(maybeText))
                      THEN Append(acc.textParts, maybeText) ELSE acc.textParts
       IN PartsScan(Tail(parts),
            [textParts |-> texts,
             citations |-> AnnotationCitations(part.annotations, acc.citations)])

RECURSIVE ItemsScan(_, _)
ItemsScan(items, acc) ==
  IF items = <<>> THEN acc
  ELSE IF Head(items).type # "message" THEN ItemsScan(Tail(items), acc)
  ELSE ItemsScan(Tail(items), PartsScan(Head(items).content, acc))

extractTextAndCitationsFromResponsesApi(responseBody) ==
  IF ~responseBody.isRecord THEN [text |-> <<>>, citations |-> <<>>]
  ELSE LET directText == IF responseBody.output_text # Null
                           THEN responseBody.output_text ELSE <<>>
           acc == ItemsScan(responseBody.output, [textParts |-> <<>>, citations |-> <<>>])
       IN [text |-> Trim(IF Truthy(directText) THEN directText
                         ELSE Join(acc.textParts, <<"\n">>)),
           citations |-> acc.citations]

\* the input of the web-search request
WebSearchInput(systemRules, history, question) ==
  <<[role |-> "system", content |-> systemRules]>>
  \o LastN(history, HistoryWindow)
  \o <<[role |-> "user",
        content |-> <<"USER QUESTION:\n">> \o question
                    \o <<"\n\nRemember: output Markdown.">>]>>

\* what openAIWebSearchAnswer returns for a response body
WebSearchResult(responseBody) ==
  LET ex == extractTextAndCitationsFromResponsesApi(responseBody)
      outputText == IF responseBody.isRecord /\ responseBody.output_text # Null
                      THEN responseBody.output_text ELSE <<>>
  IN [answerMarkdown |-> IF Truthy(ex.text) THEN ex.text ELSE outputText,
      citations |-> ex.citations]

\* a variant of CitationsSection that renders the header whatever the citations
CitationsSectionAlways(citations) ==
  <<"\n\nSources:\n">>
  \o Join([i \in DOMAIN citations |-> <<"- Source ", ToString(i), ": ">> \o citations[i].url],
          <<"\n">>)

\* the sources section queryGlobal renders from the citations
CitationsSection(citations) ==
  IF Len(citations) > 0
    THEN <<"\n\nSources:\n">>
         \o Join([i \in DOMAIN citations |->
                    <<"- Source ", ToString(i), ": ">>
                    \o (IF Truthy(citations[i].title)
                          THEN <<"[">> \o citations[i].title \o <<"](">>
                               \o citations[i].url \o <<")">>
                          ELSE citations[i].url)],
                 <<"\n">>)
    ELSE <<>>

(***************************************************************************)
(* utils/postgresVectorStore.ts: the table kb_documents is a bag of rows   *)
(* [kb_id, content, metadata, embedding].                                  *)
(***************************************************************************)
RECURSIVE DotFrom(_, _, _)
DotFrom(a, b, i) == IF i > Len(a) THEN 0 ELSE a[i] * b[i] + DotFrom(a, b, i + 1)

Dot(a, b) == DotFrom(a, b, 1)

\* integer square root
ISqrt(n) == CHOOSE r \in 0..n : r * r <= n /\ (r + 1) * (r + 1) > n

\* embedding <-> $1, squared (the order is that of the distance)
L2Squared(a, b) == Dot(a, a) - 2 * Dot(a, b) + Dot(b, b)

\* (1 - (embedding <=> $1)): cosine similarity, in ten-thousandths
CosineScore(a, b) == (Dot(a, b) * 10000) \div (ISqrt(Dot(a, a)) * ISqrt(Dot(b, b)))

\* the rows of the table, a row that occurs n times giving n instances
RowInstances(table) == UNION {{<<r, i>> : i \in 1..table[r]} : r \in DOMAIN table}

\* WHERE kb_id = $2
\* a variant of WhereKb without the WHERE clause
WhereAnyKb(instances, kbId) == instances

WhereKb(instances, kbId) == {x \in instances : x[1].kb_id = kbId}

RECURSIVE OrderLimit(_, _, _)
\* ORDER BY embedding <-> $1 LIMIT $3: every order the database may return
OrderLimit(instances, queryVector, k) ==
  IF k <= 0 \/ instances = {} THEN {<<>>}
  ELSE LET d(x) == L2Squared(x[1].embedding, queryVector)
           nearest == {x \in instances : \A y \in instances : d(x) <= d(y)}
       IN UNION {{<<x>> \o t : t \in OrderLimit(instances \ {x}, queryVector, k - 1)} :
                 x \in nearest}

\* res.rows.map(row => [new Document({pageContent, metadata}), Number(row.score)])
RowToResult(row, queryVector) ==
  [doc |-> [pageContent |-> row.content, metadata |-> row.metadata],
   score |-> CosineScore(row.embedding, queryVector),
   kb |-> row.kb_id]

\* the results similaritySearchVectorWithScore of the store of kbId may return
similaritySearchVectorWithScore(table, kbId, queryVector, k) ==
  {[i \in DOMAIN s |-> RowToResult(s[i][1], queryVector)] :
     s \in OrderLimit(WhereKb(RowInstances(table), kbId), queryVector, k)}

\* INSERT INTO kb_documents (kb_id, content, metadata, embedding)
InsertRow(table, row) == table (+) SetToBag({row})

\* a variant of deleteByKnowledgeBase without the WHERE clause
deleteByKnowledgeBaseEverywhere(table, kbId) == EmptyBag

\* DELETE FROM kb_documents WHERE kb_id = $1
deleteByKnowledgeBase(table, kbId) ==
  [r \in {x \in DOMAIN table : x.kb_id # kbId} |-> table[r]]

\* a variant of DeleteDocumentRows without the condition on kb_id
DeleteDocumentRowsAnyKb(table, kbId, documentId) ==
  [r \in {x \in DOMAIN table : x.metadata.documentId # documentId} |-> table[r]]

\* DELETE FROM kb_documents WHERE kb_id = $1 AND (metadata->>'documentId') = $2
DeleteDocumentRows(table, kbId, documentId) ==
  [r \in {x \in DOMAIN table :
            ~(x.kb_id = kbId /\ x.metadata.documentId = documentId)} |-> table[r]]

(***************************************************************************)
(* The merge of queryAcrossKnowledgeBases.                                 *)
(***************************************************************************)
RECURSIVE Flat(_)
\* perKbResults.flat()
Flat(lists) == IF lists = <<>> THEN <<>> ELSE Head(lists) \o Flat(Tail(lists))

RECURSIVE InsertByScore(_, _)
\* x goes after every element whose score is not lower (a stable insertion)
InsertByScore(sorted, x) ==
  IF sorted = <<>> THEN <<x>>
  ELSE IF Head(sorted).score >= x.score
         THEN <<Head(sorted)>> \o InsertByScore(Tail(sorted), x)
  ELSE <<x>> \o sorted

RECURSIVE SortByScoreDesc(_)
\* .sort((a, b) => b[1] - a[1]), a stable sort
SortByScoreDesc(s) ==
  IF s = <<>> THEN <<>>
  ELSE InsertByScore(SortByScoreDesc(SubSeq(s, 1, Len(s) - 1)), s[Len(s)])

\* a variant of MergeResults that omits the sort
MergeResultsUnsorted(perKbResults, topK) == Slice(Flat(perKbResults), topK)

\* perKbResults.flat().sort(...).slice(0, topK)
MergeResults(perKbResults, topK) == Slice(SortByScoreDesc(Flat(perKbResults)), topK)

(***************************************************************************)
(* services/configService.ts and services/llmProvider.ts                   *)
(***************************************************************************)
\* temperature is written as its decimal numeral; the six fields after it in the serialized key
\* (maxTokens ... stopSequences) are read and serialized as temperature is
DEFAULT_CONFIG == [llmProvider |-> "OPENAI", model |-> <<"gpt-4o">>, temperature |-> <<"0.1">>]

\* getDefaultAIConfig: the outcomes of one call, given the stored row and the cache.
\* The cached value is served while its age is within the TTL; otherwise the row is
\* read (and created from DEFAULT_CONFIG when absent) and cached.
getDefaultAIConfig(row, cached) ==
  (IF cached # <<>>
     THEN {[config |-> cached[1], configRow |-> row, cachedConfig |-> cached]}
     ELSE {})
  \cup {LET c == IF row # <<>> THEN row[1] ELSE DEFAULT_CONFIG
        IN [config |-> c, configRow |-> <<c>>, cachedConfig |-> <<c>>]}

\* config.llmProvider || LLMProvider.OPENAI
ProviderOf(config) == IF config.llmProvider # "" THEN config.llmProvider ELSE "OPENAI"

\* the environment variable a provider's branch of getLLM requires
KeyVariable(provider) ==
  IF provider = "GEMINI" THEN "GEMINI_API_KEY"
  ELSE IF provider = "ANTHROPIC" THEN "ANTHROPIC_API_KEY"
  ELSE "OPENAI_API_KEY"

\* /^gpt-5/i.test(model)
IsGpt5Family(model) == model # <<>> /\ Head(model) \in {"gpt-5", "GPT-5"}

\* the model getLLM constructs in the branch of the provider; a temperature of
\* Null is a parameter left out
ConstructLLM(config) ==
  LET provider == ProviderOf(config)
  IN IF provider = "OPENAI"
       THEN LET model == IF Truthy(config.model) THEN config.model ELSE <<"gpt-4o">>
            IN [class |-> "ChatOpenAI", model |-> model,
                temperature |-> IF IsGpt5Family(model) THEN Null ELSE config.temperature]
     ELSE IF provider = "GEMINI"
       THEN [class |-> "ChatGoogleGenerativeAI",
             model |-> IF Truthy(config.model) THEN config.model ELSE <<"gemini-pro">>,
             temperature |-> Coalesce(config.temperature, <<"1.0">>)]
     ELSE IF provider = "ANTHROPIC"
       THEN [class |-> "ChatAnthropic",
             model |-> IF Truthy(config.model) THEN config.model ELSE <<"claude-3-sonnet-20240229">>,
             temperature |-> Coalesce(config.temperature, <<"1.0">>)]
     ELSE [class |-> "ChatOpenAI", model |-> <<"gpt-4o">>, temperature |-> Null]

\* JSON.stringify({provider, model, temperature, ...}) of getLLM: two keys are equal
\* exactly when the serialized fields are (strings, finite numbers and null)
CacheKey(config) ==
  [provider |-> ProviderOf(config), model |-> config.model, temperature |-> config.temperature]

\* a variant of getLLM whose key leaves the temperature out
getLLMKeyedWithoutTemperature(config, keys, key, cached) ==
  LET provider == ProviderOf(config)
      cacheKey == [CacheKey(config) EXCEPT !.temperature = Null]
  IN IF key = <<cacheKey>> /\ cached # <<>>
       THEN [ok |-> TRUE, llm |-> cached, cachedKey |-> key, cachedLLM |-> cached]
     ELSE IF KeyVariable(provider) \notin keys
       THEN [ok |-> FALSE, llm |-> <<>>, cachedKey |-> key, cachedLLM |-> cached]
     ELSE [ok |-> TRUE, llm |-> <<ConstructLLM(config)>>,
           cachedKey |-> <<cacheKey>>, cachedLLM |-> <<ConstructLLM(config)>>]

\* a variant of getLLM that sets cachedKey before the check of the credential
getLLMKeyedBeforeCheck(config, keys, key, cached) ==
  LET provider == ProviderOf(config)
      cacheKey == CacheKey(config)
  IN IF key = <<cacheKey>> /\ cached # <<>>
       THEN [ok |-> TRUE, llm |-> cached, cachedKey |-> key, cachedLLM |-> cached]
     ELSE IF KeyVariable(provider) \notin keys
       THEN [ok |-> FALSE, llm |-> <<>>, cachedKey |-> <<cacheKey>>, cachedLLM |-> cached]
     ELSE [ok |-> TRUE, llm |-> <<ConstructLLM(config)>>,
           cachedKey |-> <<cacheKey>>, cachedLLM |-> <<ConstructLLM(config)>>]

\* LLMProviderService.getLLM for a configuration already read: [ok, llm, key, cached]
getLLM(config, keys, key, cached) ==
  LET provider == ProviderOf(config)
      cacheKey == CacheKey(config)
  IN IF key = <<cacheKey>> /\ cached # <<>>
       THEN [ok |-> TRUE, llm |-> cached, cachedKey |-> key, cachedLLM |-> cached]
     ELSE IF KeyVariable(provider) \notin keys
       THEN [ok |-> FALSE, llm |-> <<>>, cachedKey |-> key, cachedLLM |-> cached]
     ELSE [ok |-> TRUE, llm |-> <<ConstructLLM(config)>>,
           cachedKey |-> <<cacheKey>>, cachedLLM |-> <<ConstructLLM(config)>>]

(***************************************************************************)
(* The inputs the model draws from.                                        *)
(***************************************************************************)
KbIds == {"a", "b"}

\* the kbIds arguments of queryAcrossKnowledgeBases ("" is a falsy id)
IdLists == {<<>>, <<"a">>, <<"a", "a">>, <<"a", "b">>, <<"b", "", "a">>}

Question == <<"why?">>

Instructions == {Null, <<"be", "brief">>}

Histories ==
  {NoHistory,
   HistoryOf(<<[role |-> "user", content |-> <<"hi">>],
               [role |-> "assistant", content |-> <<>>]>>)}

FullMetadata(id) ==
  [documentId |-> <<id>>, fileName |-> <<id, ".pdf">>, sourceUrl |-> <<"/file/", id>>]

NoMetadata == [documentId |-> Null, fileName |-> Null, sourceUrl |-> Null]

\* the rows an ingest may insert: the embedding is what the provider returns for
\* the chunk's text
ChunkRows ==
  {[kb_id |-> "a", content |-> <<"t1">>, metadata |-> FullMetadata("d1"), embedding |-> <<4, 3>>],
   [kb_id |-> "a", content |-> <<"t2">>, metadata |-> NoMetadata, embedding |-> <<1, 0>>],
   [kb_id |-> "b", content |-> <<"t3">>, metadata |-> FullMetadata("d2"), embedding |-> <<3, 4>>]}

DocumentIds == {<<"d1">>, <<"d2">>}

\* embeddings.embedQuery(question)
embedQuery(question) == <<1, 0>>

\* process.env and the stored configuration row (<<>> when absent) at start-up
StartUps ==
  {[env |-> [RAG_TOP_K |-> <<"2">>, RAG_MAX_INSTRUCTIONS_CHARS |-> Null,
             keys |-> {"OPENAI_API_KEY"}],
    row |-> <<>>],
   [env |-> [RAG_TOP_K |-> Null, RAG_MAX_INSTRUCTIONS_CHARS |-> <<"1">>,
             keys |-> {"OPENAI_API_KEY", "GEMINI_API_KEY"}],
    row |-> <<[llmProvider |-> "GEMINI", model |-> <<"gemini-pro">>, temperature |-> Null]>>],
   [env |-> [RAG_TOP_K |-> <<"2">>, RAG_MAX_INSTRUCTIONS_CHARS |-> Null,
             keys |-> {"OPENAI_API_KEY"}],
    row |-> <<[llmProvider |-> "ANTHROPIC", model |-> <<>>, temperature |-> <<"0.7">>]>>],
   [env |-> [RAG_TOP_K |-> <<"abc">>, RAG_MAX_INSTRUCTIONS_CHARS |-> Null,
             keys |-> {"ANTHROPIC_API_KEY"}],
    row |-> <<[llmProvider |-> "ANTHROPIC", model |-> <<>>, temperature |-> <<"0.7">>]>>],
   [env |-> [RAG_TOP_K |-> Null, RAG_MAX_INSTRUCTIONS_CHARS |-> Null, keys |-> {}],
    row |-> <<[llmProvider |-> "", model |-> <<>>, temperature |-> Null]>>],
   [env |-> [RAG_TOP_K |-> Null, RAG_MAX_INSTRUCTIONS_CHARS |-> Null,
             keys |-> {"GEMINI_API_KEY"}],
    row |-> <<[llmProvider |-> "OPENAI", model |-> <<"gpt-4o">>, temperature |-> <<"0.1">>]>>]}

\* what llm.invoke may resolve to
LlmResponses(kind) ==
  {[isString |-> TRUE, content |-> <<"answer to the ", kind, " call">>],
   [isString |-> TRUE, content |-> <<>>],
   [isString |-> FALSE, content |-> <<>>]}

UrlCitation(url, title) ==
  [type |-> "url_citation", url |-> url, title |-> title, nestedUrl |-> Null, nestedTitle |-> Null]

MessageItem(parts) == [type |-> "message", content |-> parts]

\* what the Responses API may answer
WebBodies ==
  {[isRecord |-> TRUE, output_text |-> Null, output |-> <<>>],
   [isRecord |-> TRUE, output_text |-> <<"web answer">>, output |-> <<>>],
   [isRecord |-> TRUE, output_text |-> Null,
    output |-> <<[type |-> "web_search_call", content |-> <<>>],
                 MessageItem(<<[text |-> <<"part">>, content |-> Null,
                                annotations |-> <<UrlCitation(<<"u1">>, <<"T1">>),
                                                  UrlCitation(<<"u2">>, Null),
                                                  UrlCitation(<<"u1">>, Null)>>]>>)>>],
   [isRecord |-> TRUE, output_text |-> Null,
    output |-> <<MessageItem(<<[text |-> Null, content |-> Null,
                                annotations |-> <<UrlCitation(<<"u1">>, Null)>>]>>)>>]}

(***************************************************************************)
(* State.                                                                  *)
(***************************************************************************)
VARIABLES
  store,         \* the table kb_documents
  documents,     \* the Document catalogue: document id -> fileName
  env,           \* process.env
  configRow,     \* the stored default configuration: <<>> or <<row>>
  cachedConfig,  \* configService.cachedConfig: <<>> or <<config>>
  cachedKey,     \* llmProvider.cachedKey: <<>> or <<key>>
  cachedLLM,     \* llmProvider.cachedLLM: <<>> or <<model>>
  call,          \* the RagService call in flight
  initialized,   \* ragSchema.initialized
  guards,        \* the ensurePgVectorSchema calls, by caller
  AI_CONFIG_CACHE_MS,  \* process.env.AI_CONFIG_CACHE_MS
  clock,         \* Date.now()
  cachedAtMs,    \* configService.cachedAtMs
  readers,       \* the getDefaultAIConfig calls, by caller
  audit          \* what has happened to the stored configuration and the cache

schemaVars == <<initialized, guards>>

cacheVars == <<AI_CONFIG_CACHE_MS, clock, cachedAtMs, readers, audit>>

vars == <<store, documents, env, configRow, cachedConfig, cachedKey, cachedLLM, call,
          schemaVars, cacheVars>>

Callers == 1..MaxCallers

\* an ensurePgVectorSchema call: executed counts the statements of the creation
\* sequence the database has executed for it
IdleGuard == [pc |-> "idle", executed |-> 0, outcome |-> "none"]

\* where a configuration came from: when it was read from the store, when the
\* call that read it started, and whether that call was in flight when the cache
\* was last invalidated
NoOrigin == [readAt |-> 0, startedAt |-> 0, raced |-> FALSE]

\* a getDefaultAIConfig call, made for itself or by getLLM: now is its Date.now(),
\* config what it obtained, hit whether the cache served it, origin where
\* config came from, after whether the call started after the last update of the
\* stored configuration and the invalidation that followed it
IdleReader ==
  [pc |-> "idle", purpose |-> "config", now |-> 0, config |-> <<>>, hit |-> FALSE,
   origin |-> NoOrigin, after |-> FALSE]

\* writes: the updates of the stored configuration; fresh: the cache has been
\* invalidated since the last of them; inFlight: the calls that were reading
\* the store at that invalidation; cached: where the cached configuration came
\* from; calls: the calls made; built: the models constructed; madeFrom: the
\* configuration cachedLLM was constructed from; log: what the successful
\* getLLM calls read and returned, in order
NoAudit ==
  [writes |-> 0, fresh |-> FALSE, inFlight |-> {}, cached |-> NoOrigin,
   calls |-> 0, built |-> 0, madeFrom |-> <<>>, log |-> <<>>]

InitSide ==
  /\ initialized = FALSE
  /\ guards = [p \in Callers |-> IdleGuard]
  /\ AI_CONFIG_CACHE_MS = Null
  /\ clock = 0
  /\ cachedAtMs = 0
  /\ readers = [p \in Callers |-> IdleReader]
  /\ audit = NoAudit

NoArgs == [kbId |-> "", question |-> Null, instr |-> Null, hist |-> NoHistory]

Args(kbId, question, instr, hist) ==
  [kbId |-> kbId, question |-> question, instr |-> instr, hist |-> hist]

IdleCall ==
  [pc |-> "idle",
   op |-> "none",          \* the method the caller invoked
   kbIds |-> <<>>,         \* its kbIds argument (queryAcrossKnowledgeBases)
   args |-> NoArgs,        \* its other arguments
   path |-> <<>>,          \* the methods entered, in order
   q |-> NoArgs,           \* the parameters of the query frame
   g |-> NoArgs,           \* the parameters of the queryGlobal frame
   tier |-> "none",        \* "single", "merged" or "global"
   topK |-> 0,
   searches |-> <<>>,      \* the similarity searches done: [kb, k, n], n rows returned
   unique |-> <<>>,        \* uniqueKbIds of the merge
   perKb |-> <<>>,         \* perKbResults, by position in unique; <<>> = pending
   fetched |-> {},         \* positions whose search has resolved
   retrieved |-> FALSE,    \* a retrieval has completed
   results |-> <<>>,       \* the retrieval results the answer is built from
   sources |-> <<>>,
   context |-> <<>>,
   systemRules |-> <<>>,
   history |-> <<>>,
   question |-> Null,      \* the question of the frame that builds the prompt
   requests |-> <<>>,      \* the provider requests made: [kind, tier, input]
   replies |-> <<>>,       \* what each request came back with: [threw, resp, body]
   threw |-> {},           \* the external calls that threw
   outcome |-> "none",     \* "ok": a value was returned; "error": the call threw
   error |-> "",
   gret |-> Null,          \* what queryGlobal returned
   ret |-> Null,           \* what the invoked method returned
   documentId |-> Null,    \* the documentId argument (deleteDocument)
   before |-> EmptyBag]    \* the table when a delete method was invoked

Init ==
  /\ store = EmptyBag
  /\ documents = (<<"d1">> :> <<"manual.pdf">>)
  /\ \E s \in StartUps :
       /\ env = s.env
       /\ configRow = s.row
  /\ cachedConfig = <<>>
  /\ cachedKey = <<>>
  /\ cachedLLM = <<>>
  /\ call = IdleCall
  /\ InitSide

HasKey(name) == name \in env.keys

MaxInstrChars == EnvNumber(env.RAG_MAX_INSTRUCTIONS_CHARS, DefaultMaxInstrChars)

\* a variant of Throws in which the error is swallowed and an empty answer returned
ThrowsSwallowed(c, what, err) ==
  [c EXCEPT !.pc = "done", !.outcome = "ok", !.ret = <<>>, !.threw = c.threw \cup what]

\* the call ends by throwing
Throws(c, what, err) ==
  [c EXCEPT !.pc = "done", !.outcome = "error", !.error = err,
            !.threw = c.threw \cup what]

\* the call ends by returning value from the scoped tiers
Returns(c, value) == [c EXCEPT !.pc = "done", !.outcome = "ok", !.ret = value]

\* queryGlobal returns value, which query and queryAcrossKnowledgeBases return as is
GlobalReturns(c, value) ==
  [c EXCEPT !.pc = "done", !.outcome = "ok", !.gret = value, !.ret = value]

Request(kind, tier, input) == [kind |-> kind, tier |-> tier, input |-> input]

NoResp == [isString |-> FALSE, content |-> <<>>]

NoBody == [isRecord |-> FALSE, output_text |-> Null, output |-> <<>>]

\* llm.invoke resolved with resp
Resolved(resp) == [threw |-> FALSE, resp |-> resp, body |-> NoBody]

\* the web-search request resolved with body
Answered(body) == [threw |-> FALSE, resp |-> NoResp, body |-> body]

\* the request threw
Rejected == [threw |-> TRUE, resp |-> NoResp, body |-> NoBody]

\* the call made the request and got the reply
Asked(c, request, reply) ==
  [c EXCEPT !.requests = Append(c.requests, request),
            !.replies = Append(c.replies, reply)]

storeVars == <<store, documents>>

configVars == <<configRow, cachedConfig>>

llmVars == <<cachedKey, cachedLLM>>

(***************************************************************************)
(* Store operations of RagService.  ingestDocument inserts the chunks of a *)
(* text one row at a time (addVectors); IngestChunk is one such insert.    *)
(*                                                                         *)
(* A call reads the table only in its searches, and a store operation      *)
(* reads nothing of a call, so a store operation commutes with every step  *)
(* of a call that has its searches behind it.  Store operations are        *)
(* therefore interleaved only where a search may still follow.             *)
(***************************************************************************)
SearchAhead == call.pc \in {"idle", "query", "across", "merge", "pick", "pickSearch"}

IngestChunk(row) ==
  /\ SearchAhead
  /\ HasKey("OPENAI_API_KEY")                       \* getEmbeddings
  /\ BagCardinality(store) < MaxChunks
  /\ store' = InsertRow(store, row)
  /\ UNCHANGED <<schemaVars, cacheVars, documents, env, configVars, llmVars, call>>

DeleteKnowledgeBase(kbId) ==
  /\ SearchAhead
  /\ HasKey("OPENAI_API_KEY")                       \* getEmbeddings
  /\ store' = deleteByKnowledgeBase(store, kbId)
  /\ UNCHANGED <<schemaVars, cacheVars, documents, env, configVars, llmVars, call>>

DeleteDocument(kbId, documentId) ==
  /\ SearchAhead
  /\ store' = DeleteDocumentRows(store, kbId, documentId)
  /\ UNCHANGED <<schemaVars, cacheVars, documents, env, configVars, llmVars, call>>

(***************************************************************************)
(* A caller invokes one of the three query methods.                        *)
(***************************************************************************)
CanStart == call.pc \in {"idle", "done"}

StartQuery(kbId, instr, hist) ==
  /\ CanStart
  /\ call' = [IdleCall EXCEPT !.pc = "query", !.op = "query",
                              !.args = Args(kbId, Question, instr, hist),
                              !.q = Args(kbId, Question, instr, hist),
                              !.path = <<"query">>]
  /\ UNCHANGED <<schemaVars, cacheVars, storeVars, env, configVars, llmVars>>

StartAcross(kbIds, instr, hist) ==
  /\ CanStart
  /\ call' = [IdleCall EXCEPT !.pc = "across", !.op = "across", !.kbIds = kbIds,
                              !.args = Args("", Question, instr, hist),
                              !.path = <<"across">>]
  /\ UNCHANGED <<schemaVars, cacheVars, storeVars, env, configVars, llmVars>>

StartGlobal(instr, hist) ==
  /\ CanStart
  /\ call' = [IdleCall EXCEPT !.pc = "global", !.op = "global",
                              !.args = Args("", Question, instr, hist),
                              !.g = Args("", Question, instr, hist),
                              !.path = <<"global">>]
  /\ UNCHANGED <<schemaVars, cacheVars, storeVars, env, configVars, llmVars>>

(***************************************************************************)
(* RagService.query                                                        *)
(***************************************************************************)
\* a variant of QueryGlobalArgs that does not pass the instructions on
QueryGlobalArgsWithoutInstructions(q) == Args("", q.question, Null, q.hist)

\* return await this.queryGlobal(question, promptInstructions, historyRaw)
QueryGlobalArgs(q) == Args("", q.question, q.instr, q.hist)

\* the frame enters queryGlobal with the arguments a
EnterGlobal(c, a) ==
  [c EXCEPT !.pc = "global", !.g = a, !.path = Append(c.path, "global")]

\* the scoped prompt is ready: next is getLLM and the structured call
EnterScoped(c, tier, results, systemRules, hist, question) ==
  LET docIds == {DocIdOf(results[i].doc) : i \in DOMAIN results} \ {Null}
      built == buildSources(results, loadDocumentNames(docIds, documents))
  IN [c EXCEPT !.pc = "scoped", !.tier = tier, !.results = results,
               !.sources = built.sources, !.context = built.context,
               !.systemRules = systemRules,
               !.history = buildHistoryMessages(hist),
               !.question = question]

\* a variant of AfterQuerySearch that rejects when the search finds nothing
AfterQuerySearchRejectsEmpty(c, results) ==
  IF Len(results) = 0
    THEN [c EXCEPT !.pc = "done", !.outcome = "error", !.error = "no documents"]
    ELSE EnterScoped(c, "single", results,
                     buildSystemRules(trimInstructions(c.q.instr, MaxInstrChars)),
                     c.q.hist, c.q.question)

\* after the search of query: fall back on no result, else build the prompt
AfterQuerySearch(c, results) ==
  IF Len(results) = 0
    THEN EnterGlobal(c, QueryGlobalArgs(c.q))
    ELSE EnterScoped(c, "single", results,
                     buildSystemRules(trimInstructions(c.q.instr, MaxInstrChars)),
                     c.q.hist, c.q.question)

QueryRetrieve ==
  /\ call.pc = "query"
  /\ HasKey("OPENAI_API_KEY")
  /\ LET topK == EffectiveTopK(env.RAG_TOP_K)
     IN \E results \in similaritySearchVectorWithScore(
                         store, call.q.kbId, embedQuery(call.q.question), topK) :
          call' = AfterQuerySearch(
                    [call EXCEPT !.topK = topK, !.retrieved = TRUE,
                                 !.searches = Append(call.searches,
                                                [kb |-> call.q.kbId, k |-> topK,
                                                 n |-> Len(results)])],
                    results)
  /\ UNCHANGED <<schemaVars, cacheVars, storeVars, env, configVars, llmVars>>

\* EmbeddingsProviderService.getEmbeddings throws: OPENAI_API_KEY is not set
QueryNoCredential ==
  /\ call.pc = "query"
  /\ ~HasKey("OPENAI_API_KEY")
  /\ call' = Throws(call, {"credential"}, "OPENAI_API_KEY is not set")
  /\ UNCHANGED <<schemaVars, cacheVars, storeVars, env, configVars, llmVars>>

\* the schema guard, the embedding request or the search throws
QueryRetrieveThrows(what) ==
  /\ call.pc = "query"
  /\ HasKey("OPENAI_API_KEY")
  /\ call' = Throws(call, {what}, what)
  /\ UNCHANGED <<schemaVars, cacheVars, storeVars, env, configVars, llmVars>>

(***************************************************************************)
(* The model call of query and queryAcrossKnowledgeBases.                  *)
(***************************************************************************)
\* a variant of ScopedAnswer that leaves the sources section out
ScopedAnswerWithoutSources(c, resp) == toText(resp)

ScopedAnswer(c, resp) == toText(resp) \o formatSourcesSection(c.sources)

ScopedMessages(c) ==
  buildMessages(c.systemRules, c.history, c.context, c.question)

ScopedFlatInput(c) ==
  <<[role |-> "prompt",
     content |-> FlatScopedPrompt(c.systemRules, c.history, c.context, c.question)]>>

\* LLMProviderService.getLLM(): the configuration is read, then the model is built
\* or taken from the cache
LLMOutcomesFrom(row, cached) ==
  {[cfg |-> o, llm |-> getLLM(o.config, env.keys, cachedKey, cachedLLM)] :
     o \in getDefaultAIConfig(row, cached)}

LLMOutcomes == LLMOutcomesFrom(configRow, cachedConfig)

AfterGetLLM(o) ==
  /\ configRow' = o.cfg.configRow
  /\ cachedConfig' = o.cfg.cachedConfig
  /\ cachedKey' = o.llm.cachedKey
  /\ cachedLLM' = o.llm.cachedLLM

\* getLLM throws: the key of the selected provider is not set
ScopedGetLLMThrows ==
  /\ call.pc = "scoped"
  /\ \E o \in LLMOutcomes :
       /\ ~o.llm.ok
       /\ AfterGetLLM(o)
  /\ call' = Throws(call, {"credential"}, "API_KEY not set")
  /\ UNCHANGED <<schemaVars, cacheVars, storeVars, env>>

\* llm.invoke(messages) resolves
ScopedInvoke(resp) ==
  /\ call.pc = "scoped"
  /\ \E o \in LLMOutcomes :
       /\ o.llm.ok
       /\ AfterGetLLM(o)
  /\ call' = Returns(
       Asked(call, Request("structured", call.tier, ScopedMessages(call)), Resolved(resp)),
       ScopedAnswer(call, resp))
  /\ UNCHANGED <<schemaVars, cacheVars, storeVars, env>>

\* llm.invoke(messages) throws: the catch block is entered
ScopedInvokeThrows ==
  /\ call.pc = "scoped"
  /\ \E o \in LLMOutcomes :
       /\ o.llm.ok
       /\ AfterGetLLM(o)
  /\ call' = [Asked(call, Request("structured", call.tier, ScopedMessages(call)), Rejected)
                EXCEPT !.pc = "scopedFlat", !.threw = call.threw \cup {"structured"}]
  /\ UNCHANGED <<schemaVars, cacheVars, storeVars, env>>

\* llm.invoke(prompt) resolves
ScopedFlatInvoke(resp) ==
  /\ call.pc = "scopedFlat"
  /\ call' = Returns(
       Asked(call, Request("flat", call.tier, ScopedFlatInput(call)), Resolved(resp)),
       ScopedAnswer(call, resp))
  /\ UNCHANGED <<schemaVars, cacheVars, storeVars, env, configVars, llmVars>>

\* llm.invoke(prompt) throws out of the catch block
ScopedFlatThrows ==
  /\ call.pc = "scopedFlat"
  /\ call' = Throws(
       Asked(call, Request("flat", call.tier, ScopedFlatInput(call)), Rejected),
       {"flat"}, "flat")
  /\ UNCHANGED <<schemaVars, cacheVars, storeVars, env, configVars, llmVars>>

(***************************************************************************)
(* RagService.queryAcrossKnowledgeBases                                    *)
(***************************************************************************)
\* a variant of UniqueKbIds that keeps the repeated ids
UniqueKbIdsWithRepeats(kbIds) == SelectSeq(kbIds, LAMBDA id : id # "")

\* Array.from(new Set(kbIds)).filter(Boolean)
UniqueKbIds(kbIds) == SelectSeq(Unique(kbIds), LAMBDA id : id # "")

\* return await this.queryGlobal(question, promptInstructions, historyRaw)
AcrossGlobalArgs(a) == Args("", a.question, a.instr, a.hist)

\* return await this.query(uniqueKbIds[0], question, promptInstructions, historyRaw)
AcrossQueryArgs(uniqueKbIds, a) == Args(uniqueKbIds[1], a.question, a.instr, a.hist)

MultiKbNote ==
  <<"\n\nYou may receive context from multiple knowledge bases. Use ALL relevant sources.">>

\* a variant of AfterMerge that always falls back
AfterMergeAlwaysGlobal(c) ==
  EnterGlobal([c EXCEPT !.retrieved = TRUE], AcrossGlobalArgs(c.args))

\* after Promise.all: merge, fall back on no result, else build the prompt
AfterMerge(c) ==
  LET merged == MergeResults(c.perKb, c.topK)
      d == [c EXCEPT !.retrieved = TRUE]
  IN IF Len(merged) = 0
       THEN EnterGlobal(d, AcrossGlobalArgs(c.args))
       ELSE EnterScoped(d, "merged", merged,
              buildSystemRules(
                Coalesce(trimInstructions(c.args.instr, MaxInstrChars), <<>>)
                \o MultiKbNote),
              c.args.hist, c.args.question)

AcrossDispatch ==
  /\ call.pc = "across"
  /\ LET uniqueKbIds == UniqueKbIds(call.kbIds)
         topK == EffectiveTopK(env.RAG_TOP_K)
     IN call' =
          IF Len(uniqueKbIds) = 0
            THEN EnterGlobal(call, AcrossGlobalArgs(call.args))
          ELSE IF Len(uniqueKbIds) = 1
            THEN [call EXCEPT !.pc = "query",
                              !.q = AcrossQueryArgs(uniqueKbIds, call.args),
                              !.path = Append(call.path, "query")]
          ELSE IF ~HasKey("OPENAI_API_KEY")
            THEN Throws(call, {"credential"}, "OPENAI_API_KEY is not set")
          ELSE [call EXCEPT !.pc = "merge", !.unique = uniqueKbIds, !.topK = topK,
                            !.perKb = [i \in DOMAIN uniqueKbIds |-> <<>>]]
  /\ UNCHANGED <<schemaVars, cacheVars, storeVars, env, configVars, llmVars>>

\* the schema guard or the embedding request of the merge path throws
AcrossEmbedThrows(what) ==
  /\ call.pc = "across"
  /\ Len(UniqueKbIds(call.kbIds)) >= 2
  /\ HasKey("OPENAI_API_KEY")
  /\ call' = Throws(call, {what}, what)
  /\ UNCHANGED <<schemaVars, cacheVars, storeVars, env, configVars, llmVars>>

\* the search of one knowledge base resolves; the last one completes Promise.all
AcrossFetch(i) ==
  /\ call.pc = "merge"
  /\ i \in DOMAIN call.unique
  /\ i \notin call.fetched
  /\ LET perKbK == PerKbK(call.topK, Len(call.unique))
     IN \E results \in similaritySearchVectorWithScore(
                         store, call.unique[i], embedQuery(call.args.question), perKbK) :
          LET c == [call EXCEPT !.perKb[i] = results,
                                !.fetched = call.fetched \cup {i},
                                !.searches = Append(call.searches,
                                               [kb |-> call.unique[i], k |-> perKbK,
                                                n |-> Len(results)])]
          IN call' = IF c.fetched = DOMAIN c.unique THEN AfterMerge(c) ELSE c
  /\ UNCHANGED <<schemaVars, cacheVars, storeVars, env, configVars, llmVars>>

\* one search rejects: Promise.all rejects
AcrossFetchThrows ==
  /\ call.pc = "merge"
  /\ call' = Throws(call, {"storage"}, "storage")
  /\ UNCHANGED <<schemaVars, cacheVars, storeVars, env, configVars, llmVars>>

(***************************************************************************)
(* RagService.queryGlobal                                                  *)
(***************************************************************************)
GLOBAL_FALLBACK_PROMPT_INSTRUCTIONS ==
  <<"You can use general knowledge and (when available) web search results.", "\n",
    "If a question is ambiguous, ask a clarifying question.", "\n",
    "If you are not confident, say so.", "\n",
    "Prefer official manufacturer docs and trustworthy sources.">>

GlobalSystemRules(g) ==
  buildGlobalSystemRules(
    trimInstructions(Coalesce(g.instr, GLOBAL_FALLBACK_PROMPT_INSTRUCTIONS),
                     MaxInstrChars))

\* provider === LLMProvider.OPENAI && process.env.OPENAI_API_KEY
UsesWebSearch(config) == ProviderOf(config) = "OPENAI" /\ HasKey("OPENAI_API_KEY")

\* Array.isArray(historyRaw) ? historyRaw.slice(-12) : []
WebHistory(hist) == IF hist.defined THEN LastN(hist.items, HistoryWindow) ELSE <<>>

WebRequest(c) ==
  Request("web", "global",
          WebSearchInput(GlobalSystemRules(c.g), WebHistory(c.g.hist), c.g.question))

\* `${answerMarkdown}${sourcesSection}`
GlobalWebAnswer(body) ==
  LET r == WebSearchResult(body)
  IN r.answerMarkdown \o CitationsSection(r.citations)

GlobalMessages(c) ==
  buildGlobalMessages(GlobalSystemRules(c.g), buildHistoryMessages(c.g.hist), c.g.question)

GlobalFlatInput(c) ==
  <<[role |-> "prompt",
     content |-> FlatGlobalPrompt(GlobalSystemRules(c.g), buildHistoryMessages(c.g.hist),
                                  c.g.question)]>>

EnteredGlobal(c) == [c EXCEPT !.tier = "global"]

\* getDefaultAIConfig throws (the configuration store fails)
GlobalConfigThrows ==
  /\ call.pc = "global"
  /\ call' = Throws(EnteredGlobal(call), {"storage"}, "storage")
  /\ UNCHANGED <<schemaVars, cacheVars, storeVars, env, configVars, llmVars>>

\* the web-search request resolves with body
GlobalWebSearch(body) ==
  /\ call.pc = "global"
  /\ \E o \in getDefaultAIConfig(configRow, cachedConfig) :
       /\ UsesWebSearch(o.config)
       /\ configRow' = o.configRow
       /\ cachedConfig' = o.cachedConfig
  /\ call' = GlobalReturns(
       Asked(EnteredGlobal(call), WebRequest(call), Answered(body)),
       GlobalWebAnswer(body))
  /\ UNCHANGED <<schemaVars, cacheVars, storeVars, env, llmVars>>

\* the web-search request throws
GlobalWebSearchThrows ==
  /\ call.pc = "global"
  /\ \E o \in getDefaultAIConfig(configRow, cachedConfig) :
       /\ UsesWebSearch(o.config)
       /\ configRow' = o.configRow
       /\ cachedConfig' = o.cachedConfig
  /\ call' = Throws(
       Asked(EnteredGlobal(call), WebRequest(call), Rejected),
       {"web"}, "web")
  /\ UNCHANGED <<schemaVars, cacheVars, storeVars, env, llmVars>>

\* the plain branch: the outcomes of getLLM after the configuration was read
GlobalLLMOutcomes ==
  UNION {LLMOutcomesFrom(o.configRow, o.cachedConfig) :
           o \in {x \in getDefaultAIConfig(configRow, cachedConfig) :
                    ~UsesWebSearch(x.config)}}

GlobalGetLLMThrows ==
  /\ call.pc = "global"
  /\ \E o \in GlobalLLMOutcomes :
       /\ ~o.llm.ok
       /\ AfterGetLLM(o)
  /\ call' = Throws(EnteredGlobal(call), {"credential"}, "API_KEY not set")
  /\ UNCHANGED <<schemaVars, cacheVars, storeVars, env>>

GlobalInvoke(resp) ==
  /\ call.pc = "global"
  /\ \E o \in GlobalLLMOutcomes :
       /\ o.llm.ok
       /\ AfterGetLLM(o)
  /\ call' = GlobalReturns(
       Asked(EnteredGlobal(call), Request("structured", "global", GlobalMessages(call)),
             Resolved(resp)),
       toText(resp))
  /\ UNCHANGED <<schemaVars, cacheVars, storeVars, env>>

GlobalInvokeThrows ==
  /\ call.pc = "global"
  /\ \E o \in GlobalLLMOutcomes :
       /\ o.llm.ok
       /\ AfterGetLLM(o)
  /\ call' = [Asked(EnteredGlobal(call),
                      Request("structured", "global", GlobalMessages(call)), Rejected)
                EXCEPT !.pc = "globalFlat", !.threw = call.threw \cup {"structured"}]
  /\ UNCHANGED <<schemaVars, cacheVars, storeVars, env>>

GlobalFlatInvoke(resp) ==
  /\ call.pc = "globalFlat"
  /\ call' = GlobalReturns(
       Asked(call, Request("flat", "global", GlobalFlatInput(call)), Resolved(resp)),
       toText(resp))
  /\ UNCHANGED <<schemaVars, cacheVars, storeVars, env, configVars, llmVars>>

GlobalFlatThrows ==
  /\ call.pc = "globalFlat"
  /\ call' = Throws(
       Asked(call, Request("flat", "global", GlobalFlatInput(call)), Rejected),
       {"flat"}, "flat")
  /\ UNCHANGED <<schemaVars, cacheVars, storeVars, env, configVars, llmVars>>

(***************************************************************************)
(* RagService.pickBestKnowledgeBase.  The call returns a collection id     *)
(* (held in ret as the one-token string <<id>>) or null.                   *)
(***************************************************************************)
StartPick(kbIds) ==
  /\ CanStart
  /\ call' = [IdleCall EXCEPT !.pc = "pick", !.op = "pick", !.kbIds = kbIds,
                              !.args = Args("", Question, Null, NoHistory),
                              !.path = <<"pick">>]
  /\ UNCHANGED <<schemaVars, cacheVars, storeVars, env, configVars, llmVars>>

\* Number.NEGATIVE_INFINITY
NEGATIVE_INFINITY == NotFinite

\* results.length > 0 ? results[0][1] : Number.NEGATIVE_INFINITY
PickScore(results) == IF Len(results) > 0 THEN Finite(results[1].score) ELSE NEGATIVE_INFINITY

\* a > b for scores that are finite or negative infinity
Greater(a, b) == a.fin /\ (~b.fin \/ a.n > b.n)

RECURSIVE ReduceBest(_, _)
\* scores.reduce((acc, item) => item.score > acc.score ? item : acc, acc)
ReduceBest(scores, acc) ==
  IF scores = <<>> THEN acc
  ELSE ReduceBest(Tail(scores),
                  IF Greater(Head(scores).score, acc.score) THEN Head(scores) ELSE acc)

\* the value pickBestKnowledgeBase returns after Promise.all
PickBest(uniqueKbIds, perKb) ==
  LET scores == [i \in DOMAIN uniqueKbIds |->
                   [kbId |-> <<uniqueKbIds[i]>>, score |-> PickScore(perKb[i])]]
      best == ReduceBest(scores, [kbId |-> Null, score |-> NEGATIVE_INFINITY])
  IN IF best.kbId = Null \/ ~best.score.fin THEN Null ELSE best.kbId

PickDispatch ==
  /\ call.pc = "pick"
  /\ LET uniqueKbIds == UniqueKbIds(call.kbIds)
     IN call' =
          IF Len(uniqueKbIds) = 0 THEN Returns(call, Null)
          ELSE IF Len(uniqueKbIds) = 1 THEN Returns(call, <<uniqueKbIds[1]>>)
          ELSE IF ~HasKey("OPENAI_API_KEY")
            THEN Throws(call, {"credential"}, "OPENAI_API_KEY is not set")
          ELSE [call EXCEPT !.pc = "pickSearch", !.unique = uniqueKbIds,
                            !.perKb = [i \in DOMAIN uniqueKbIds |-> <<>>]]
  /\ UNCHANGED <<schemaVars, cacheVars, storeVars, env, configVars, llmVars>>

\* the schema guard or the embedding request throws
PickEmbedThrows(what) ==
  /\ call.pc = "pick"
  /\ Len(UniqueKbIds(call.kbIds)) >= 2
  /\ HasKey("OPENAI_API_KEY")
  /\ call' = Throws(call, {what}, what)
  /\ UNCHANGED <<schemaVars, cacheVars, storeVars, env, configVars, llmVars>>

\* the k=1 search of one knowledge base resolves; the last one completes Promise.all
PickSearch(i) ==
  /\ call.pc = "pickSearch"
  /\ i \in DOMAIN call.unique
  /\ i \notin call.fetched
  /\ \E results \in similaritySearchVectorWithScore(
                        store, call.unique[i], embedQuery(call.args.question), 1) :
       LET c == [call EXCEPT !.perKb[i] = results,
                             !.fetched = call.fetched \cup {i},
                             !.searches = Append(call.searches,
                                            [kb |-> call.unique[i], k |-> 1,
                                             n |-> Len(results)])]
       IN call' = IF c.fetched = DOMAIN c.unique
                    THEN Returns([c EXCEPT !.retrieved = TRUE], PickBest(c.unique, c.perKb))
                    ELSE c
  /\ UNCHANGED <<schemaVars, cacheVars, storeVars, env, configVars, llmVars>>

\* one search rejects: Promise.all rejects
PickSearchThrows ==
  /\ call.pc = "pickSearch"
  /\ call' = Throws(call, {"storage"}, "storage")
  /\ UNCHANGED <<schemaVars, cacheVars, storeVars, env, configVars, llmVars>>

(***************************************************************************)
(* RagService.deleteKnowledgeBase and deleteDocument as calls of their     *)
(* own: the whole method in one step, with the table it found.             *)
(***************************************************************************)
StoreCall(op, kbId, documentId) ==
  [IdleCall EXCEPT !.pc = "done", !.op = op, !.path = <<op>>,
                   !.args = Args(kbId, Null, Null, NoHistory),
                   !.documentId = documentId, !.before = store, !.outcome = "ok"]

\* deleteKnowledgeBase: getEmbeddings throws without OPENAI_API_KEY, else the
\* rows of the knowledge base are deleted
DeleteKnowledgeBaseCall(kbId) ==
  /\ CanStart
  /\ IF HasKey("OPENAI_API_KEY")
       THEN /\ store' = deleteByKnowledgeBase(store, kbId)
            /\ call' = StoreCall("deleteKnowledgeBase", kbId, Null)
       ELSE /\ store' = store
            /\ call' = Throws(StoreCall("deleteKnowledgeBase", kbId, Null),
                              {"credential"}, "OPENAI_API_KEY is not set")
  /\ UNCHANGED <<schemaVars, cacheVars, documents, env, configVars, llmVars>>

DeleteDocumentCall(kbId, documentId) ==
  /\ CanStart
  /\ store' = DeleteDocumentRows(store, kbId, documentId)
  /\ call' = StoreCall("deleteDocument", kbId, documentId)
  /\ UNCHANGED <<schemaVars, cacheVars, documents, env, configVars, llmVars>>

\* the schema guard, the connection or the DELETE statement throws
DeleteThrows(op, kbId, documentId) ==
  /\ CanStart
  /\ op = "deleteKnowledgeBase" => (HasKey("OPENAI_API_KEY") /\ documentId = Null)
  /\ op = "deleteDocument" => documentId # Null
  /\ call' = Throws(StoreCall(op, kbId, documentId), {"storage"}, "storage")
  /\ UNCHANGED <<schemaVars, cacheVars, storeVars, env, configVars, llmVars>>

(***************************************************************************)
(* Specifications.                                                         *)
(***************************************************************************)
StoreStep ==
  \/ \E row \in ChunkRows : IngestChunk(row)
  \/ \E kbId \in KbIds : DeleteKnowledgeBase(kbId)
  \/ \E kbId \in KbIds, documentId \in DocumentIds : DeleteDocument(kbId, documentId)

StartStep ==
  \/ \E kbId \in KbIds, instr \in Instructions, hist \in Histories :
       StartQuery(kbId, instr, hist)
  \/ \E kbIds \in IdLists, instr \in Instructions, hist \in Histories :
       StartAcross(kbIds, instr, hist)
  \/ \E instr \in Instructions, hist \in Histories : StartGlobal(instr, hist)

\* the steps of the call in flight: an awaited call rejects, or it resolves
CallStep ==
  \/ QueryNoCredential
  \/ \E what \in {"embed", "storage"} : QueryRetrieveThrows(what)
  \/ \E what \in {"embed", "storage"} : AcrossEmbedThrows(what)
  \/ AcrossFetchThrows
  \/ ScopedGetLLMThrows
  \/ ScopedInvokeThrows
  \/ ScopedFlatThrows
  \/ GlobalConfigThrows
  \/ GlobalWebSearchThrows
  \/ GlobalGetLLMThrows
  \/ GlobalInvokeThrows
  \/ GlobalFlatThrows
  \/ QueryRetrieve
  \/ AcrossDispatch
  \/ \E i \in 1..3 : AcrossFetch(i)
  \/ \E resp \in LlmResponses("structured") : ScopedInvoke(resp)
  \/ \E resp \in LlmResponses("flat") : ScopedFlatInvoke(resp)
  \/ \E body \in WebBodies : GlobalWebSearch(body)
  \/ \E resp \in LlmResponses("structured") : GlobalInvoke(resp)
  \/ \E resp \in LlmResponses("flat") : GlobalFlatInvoke(resp)

Next == StoreStep \/ StartStep \/ CallStep

Spec == Init /\ [][Next]_vars

\* the calls made without instructions and without history
PlainStartStep ==
  \/ \E kbId \in KbIds : StartQuery(kbId, Null, NoHistory)
  \/ \E kbIds \in IdLists : StartAcross(kbIds, Null, NoHistory)
  \/ StartGlobal(Null, NoHistory)

NextFair == StoreStep \/ PlainStartStep \/ CallStep

\* every awaited call of the call in flight settles: it resolves or it rejects
FairSpec == Init /\ [][NextFair]_vars /\ WF_vars(CallStep)

(***************************************************************************)
(* RAG_TOP_K over a range of settings, for query alone.                    *)
(***************************************************************************)
RECURSIVE NaturalString(_)
\* String(n) for a natural number n
NaturalString(n) ==
  IF n < 10 THEN <<Digits[n + 1]>>
  ELSE NaturalString(n \div 10) \o <<Digits[(n % 10) + 1]>>

\* String(n) for an integer n
DecimalString(n) == IF n < 0 THEN <<"-">> \o NaturalString(0 - n) ELSE NaturalString(n)

\* settings of RAG_TOP_K that are absent, empty, or no finite number
NoFiniteSetting == {Null, <<>>, <<"abc">>, <<"Infinity">>, <<"-", "Infinity">>}

TopKSettings ==
  NoFiniteSetting \cup {DecimalString(n) : n \in (0 - MaxSetting)..MaxSetting}

InitTopK ==
  /\ store = EmptyBag
  /\ documents = (<<"d1">> :> <<"manual.pdf">>)
  /\ \E raw \in TopKSettings :
       env = [RAG_TOP_K |-> raw, RAG_MAX_INSTRUCTIONS_CHARS |-> Null,
              keys |-> {"OPENAI_API_KEY"}]
  /\ configRow = <<>>
  /\ cachedConfig = <<>>
  /\ cachedKey = <<>>
  /\ cachedLLM = <<>>
  /\ call = IdleCall
  /\ InitSide

NextTopK ==
  \/ \E row \in ChunkRows : IngestChunk(row)
  \/ \E kbId \in KbIds : StartQuery(kbId, Null, NoHistory)
  \/ QueryRetrieve

SpecTopK == InitTopK /\ [][NextTopK]_vars

(***************************************************************************)
(* The table under a wider set of rows: embeddings of any length, chunks   *)
(* of one document, the same document id in two collections, and every     *)
(* kind of metadata.  Retrieval, routing and the delete methods.           *)
(***************************************************************************)
Metadata(documentId, fileName, sourceUrl) ==
  [documentId |-> documentId, fileName |-> fileName, sourceUrl |-> sourceUrl]

StoredRows ==
  {[kb_id |-> "a", content |-> <<"t1">>, metadata |-> FullMetadata("d1"), embedding |-> <<4, 3>>],
   [kb_id |-> "a", content |-> <<"t2">>, metadata |-> FullMetadata("d1"), embedding |-> <<0, 1>>],
   [kb_id |-> "a", content |-> <<"t3">>, metadata |-> NoMetadata, embedding |-> <<1, 0>>],
   [kb_id |-> "b", content |-> <<"t4">>, metadata |-> Metadata(<<"d1">>, Null, Null),
    embedding |-> <<3, 4>>],
   [kb_id |-> "b", content |-> <<"t5">>, metadata |-> Metadata(Null, Null, <<"/u">>),
    embedding |-> <<0, 1>>],
   [kb_id |-> "b", content |-> <<"t6">>, metadata |-> Metadata(Null, <<"notes.txt">>, Null),
    embedding |-> <<0, 2>>],
   [kb_id |-> "b", content |-> <<"t7">>, metadata |-> FullMetadata("d2"), embedding |-> <<3, 4>>]}

StoreCallStep ==
  \/ \E kbId \in KbIds : DeleteKnowledgeBaseCall(kbId)
  \/ \E kbId \in KbIds, documentId \in DocumentIds : DeleteDocumentCall(kbId, documentId)
  \/ \E kbId \in KbIds : DeleteThrows("deleteKnowledgeBase", kbId, Null)
  \/ \E kbId \in KbIds, documentId \in DocumentIds :
       DeleteThrows("deleteDocument", kbId, documentId)

PickStep ==
  \/ \E kbIds \in IdLists : StartPick(kbIds)
  \/ \E what \in {"embed", "storage"} : PickEmbedThrows(what)
  \/ PickSearchThrows
  \/ PickDispatch
  \/ \E i \in 1..2 : PickSearch(i)

RetrieveStep ==
  \/ \E kbId \in KbIds : StartQuery(kbId, Null, NoHistory)
  \/ QueryNoCredential
  \/ QueryRetrieve

NextStore ==
  \/ \E row \in StoredRows : IngestChunk(row)
  \/ StoreCallStep
  \/ PickStep
  \/ RetrieveStep

SpecStore == Init /\ [][NextStore]_vars

(***************************************************************************)
(* Calls with chat histories of up to MaxHistory items.  Item i of a       *)
(* history has the content "m" i, distinct from every other item's; every  *)
(* fifth item has an empty content and every seventh none.                 *)
(***************************************************************************)
HistoryItem(i) ==
  [role |-> IF i % 3 = 0 THEN "system" ELSE IF i % 3 = 1 THEN "user" ELSE "assistant",
   content |-> IF i % 5 = 0 THEN <<>> ELSE IF i % 7 = 0 THEN Null ELSE <<"m", ToString(i)>>]

LongHistories ==
  {NoHistory}
  \cup {HistoryOf([i \in 1..n |-> HistoryItem(i)]) :
          n \in {0, 1, HistoryWindow, MaxHistory - 1, MaxHistory}}

HistoryStartStep ==
  \/ \E kbId \in KbIds, hist \in LongHistories : StartQuery(kbId, Null, hist)
  \/ \E kbIds \in IdLists, hist \in LongHistories : StartAcross(kbIds, Null, hist)
  \/ \E hist \in LongHistories : StartGlobal(Null, hist)

NextHistory ==
  \/ \E row \in ChunkRows : IngestChunk(row)
  \/ HistoryStartStep
  \/ CallStep

SpecHistory == Init /\ [][NextHistory]_vars

(***************************************************************************)
(* Calls while the stored default configuration changes.  The row is       *)
(* written outside the services modelled here; getDefaultAIConfig reads it *)
(* when its cache has expired or was invalidated.                          *)
(***************************************************************************)
ConfigRows ==
  {[llmProvider |-> "OPENAI", model |-> <<"gpt-4o">>, temperature |-> <<"0.1">>],
   [llmProvider |-> "OPENAI", model |-> <<"gpt-5">>, temperature |-> <<"0.1">>],
   [llmProvider |-> "GEMINI", model |-> <<"gemini-pro">>, temperature |-> Null],
   [llmProvider |-> "ANTHROPIC", model |-> <<>>, temperature |-> <<"0.7">>]}

\* the default configuration row is replaced between two calls
SaveConfiguration(row) ==
  /\ CanStart
  /\ configRow # <<row>>
  /\ configRow' = <<row>>
  /\ UNCHANGED <<schemaVars, cacheVars, storeVars, env, cachedConfig, llmVars, call>>

NextConfig ==
  \/ \E row \in ConfigRows : SaveConfiguration(row)
  \/ \E row \in {r \in ChunkRows : r.content = <<"t1">>} : IngestChunk(row)
  \/ PlainStartStep
  \/ CallStep

SpecConfig == Init /\ [][NextConfig]_vars

(***************************************************************************)
(* Calls with every kind of instructions argument: null, the empty string, *)
(* blanks, and a text.                                                     *)
(***************************************************************************)
AnyInstructions == {Null, <<>>, <<" ">>, <<"be", "brief">>}

InstructionsStartStep ==
  \/ \E kbId \in KbIds, instr \in AnyInstructions : StartQuery(kbId, instr, NoHistory)
  \/ \E kbIds \in IdLists, instr \in AnyInstructions : StartAcross(kbIds, instr, NoHistory)
  \/ \E instr \in AnyInstructions : StartGlobal(instr, NoHistory)

NextInstructions ==
  \/ \E row \in {r \in ChunkRows : r.content = <<"t1">>} : IngestChunk(row)
  \/ InstructionsStartStep
  \/ CallStep

SpecInstructions == Init /\ [][NextInstructions]_vars

(***************************************************************************)
(* queryAcrossKnowledgeBases over two to MaxKbs collections, under every   *)
(* setting of RAG_TOP_K.                                                   *)
(***************************************************************************)
KbName(i) == IF i = 1 THEN "a" ELSE IF i = 2 THEN "b" ELSE Digits[i + 1]

\* the kbIds arguments with n distinct ids
WideIdLists == {[i \in 1..n |-> KbName(i)] : n \in 2..MaxKbs}

NextPerKb ==
  \/ \E row \in {r \in ChunkRows : r.content = <<"t1">>} : IngestChunk(row)
  \/ \E kbIds \in WideIdLists : StartAcross(kbIds, Null, NoHistory)
  \/ AcrossDispatch
  \/ \E what \in {"embed", "storage"} : AcrossEmbedThrows(what)
  \/ AcrossFetchThrows
  \/ \E i \in 1..MaxKbs : AcrossFetch(i)

SpecPerKb == InitTopK /\ [][NextPerKb]_vars

(***************************************************************************)
(* extractTextAndCitationsFromResponsesApi on its own, over response       *)
(* bodies of every shape the loops tell apart: annotations of three types, *)
(* with the url at the top, nested under url_citation, empty or missing,   *)
(* in message items and in items of another type.                          *)
(***************************************************************************)
Annotations ==
  [type : {"url_citation", "url-citation", "file_citation"},
   url : {Null, <<>>, <<"u1">>},
   title : {Null, <<"T1">>},
   nestedUrl : {Null, <<"u2">>},
   nestedTitle : {Null}]

AnnotationLists ==
  {<<>>} \cup {<<a>> : a \in Annotations}
         \cup {<<a, b>> : a \in Annotations,
                          b \in {x \in Annotations : x.type = "url_citation"}}

CitationBodies ==
  {NoBody}
  \cup WebBodies
  \cup {[isRecord |-> TRUE, output_text |-> Null,
         output |-> <<[type |-> type,
                       content |-> <<[text |-> <<"part">>, content |-> Null,
                                      annotations |-> anns]>>],
                      MessageItem(<<[text |-> Null, content |-> Null,
                                     annotations |-> <<UrlCitation(<<"u1">>, Null)>>]>>)>>] :
         type \in {"message", "web_search_call"}, anns \in AnnotationLists}

InitAlone ==
  /\ Init
  /\ configRow = <<>>

\* openAIWebSearchAnswer receives a response body
ReceiveBody(responseBody) ==
  /\ call = IdleCall
  /\ call' = [pc |-> "received", body |-> responseBody, citations |-> <<>>]
  /\ UNCHANGED <<schemaVars, cacheVars, store, documents, env, configRow, cachedConfig,
                 cachedKey, cachedLLM>>

\* ... and extracts the text and the citations from it
ExtractCitations ==
  /\ call.pc = "received"
  /\ call' = [call EXCEPT !.pc = "extracted",
                !.citations = extractTextAndCitationsFromResponsesApi(call.body).citations]
  /\ UNCHANGED <<schemaVars, cacheVars, store, documents, env, configRow, cachedConfig,
                 cachedKey, cachedLLM>>

NextCitations ==
  \/ \E responseBody \in CitationBodies : ReceiveBody(responseBody)
  \/ ExtractCitations

SpecCitations == InitAlone /\ [][NextCitations]_vars

(***************************************************************************)
(* trimInstructions on its own: every text of up to MaxText characters     *)
(* and null, under every whole maxChars from -1 to MaxCut and a maxChars   *)
(* that is not finite; the result is trimmed a second time.                *)
(***************************************************************************)
Texts == {Null} \cup UNION {[1..n -> {"a", "b"}] : n \in 0..MaxText}

Cuts == {NotFinite} \cup {Finite(n) : n \in -1..MaxCut}

\* trimInstructions(promptInstructions, maxChars) is called
TrimCall(promptInstructions, maxChars) ==
  /\ call = IdleCall
  /\ call' = [pc |-> "trim", text |-> promptInstructions, maxChars |-> maxChars,
              once |-> <<>>, twice |-> <<>>]
  /\ UNCHANGED <<schemaVars, cacheVars, store, documents, env, configRow, cachedConfig,
                 cachedKey, cachedLLM>>

\* ... and returns
TrimReturn ==
  /\ call.pc = "trim"
  /\ call' = [call EXCEPT !.pc = "trimmed",
                !.once = trimInstructions(call.text, call.maxChars)]
  /\ UNCHANGED <<schemaVars, cacheVars, store, documents, env, configRow, cachedConfig,
                 cachedKey, cachedLLM>>

\* its result is given to it again
TrimAgain ==
  /\ call.pc = "trimmed"
  /\ call' = [call EXCEPT !.pc = "trimmed twice",
                !.twice = trimInstructions(call.once, call.maxChars)]
  /\ UNCHANGED <<schemaVars, cacheVars, store, documents, env, configRow, cachedConfig,
                 cachedKey, cachedLLM>>

NextTrim ==
  \/ \E promptInstructions \in Texts, maxChars \in Cuts :
       TrimCall(promptInstructions, maxChars)
  \/ TrimReturn
  \/ TrimAgain

SpecTrim == InitAlone /\ [][NextTrim]_vars

(***************************************************************************)
(* controllers/knowledgeBase: uploadPDF and reindexKnowledgeBase, with     *)
(* RagService.ingestDocument and PostgresVectorStore.addDocuments /        *)
(* addVectors step by step.  A document of a batch is [id, fileName,       *)
(* onDisk, text]; its text is the sequence of the pieces the splitter cuts *)
(* it into.  Every awaited call either resolves or rejects.                *)
(***************************************************************************)
DocTexts == {<<>>, <<" ">>} \cup {[j \in 1..n |-> ToString(j)] : n \in 1..MaxPieces}

BatchDoc(i, onDisk, text) ==
  [id |-> <<"doc", ToString(i)>>, fileName |-> <<"file", ToString(i), ".pdf">>,
   onDisk |-> onDisk, text |-> text]

\* the files of an upload, or the documents documentRepository.find returns
Batches ==
  UNION {{[i \in 1..n |-> BatchDoc(i, kinds[i][1], kinds[i][2])] :
            kinds \in [1..n -> ({<<FALSE, <<>> >>} \cup ({TRUE} \X DocTexts))]} :
         n \in 1..MaxBatch}

\* the table before the request: chunks of an earlier ingest of two collections
BatchStores ==
  {EmptyBag,
   SetToBag({[kb_id |-> "a", content |-> <<"1">>,
              metadata |-> Metadata(<<"doc", "1">>, <<"file", "1", ".pdf">>, <<"/old">>),
              embedding |-> <<1, 0>>],
             [kb_id |-> "b", content |-> <<"1">>, metadata |-> FullMetadata("d2"),
              embedding |-> <<3, 4>>]})}

InitBatch ==
  /\ store \in BatchStores
  /\ documents = (<<"d1">> :> <<"manual.pdf">>)
  /\ \E s \in StartUps :
       /\ s.row = <<>> \/ s.env.keys = {}
       /\ env = s.env
       /\ configRow = s.row
  /\ cachedConfig = <<>>
  /\ cachedKey = <<>>
  /\ cachedLLM = <<>>
  /\ call = IdleCall
  /\ InitSide

BatchFrame == UNCHANGED <<schemaVars, cacheVars, env, configVars, llmVars>>

\* the metadata ingestDocument is given for a document
IngestMetadata(kbId, doc) ==
  Metadata(doc.id, doc.fileName,
           <<"/knowledge-bases/", kbId, "/documents/">> \o doc.id \o <<"/file">>)

\* splitter.createDocuments([text], [metadata ?? {}])
createDocuments(text, metadata) ==
  [j \in DOMAIN text |-> [pageContent |-> <<text[j]>>, metadata |-> metadata]]

\* embeddings.embedDocuments(texts)
embedDocuments(texts) == [j \in DOMAIN texts |-> <<1, 0>>]

\* the row addVectors inserts for documents[i]
VectorRow(kbId, doc, vector) ==
  [kb_id |-> kbId, content |-> doc.pageContent, metadata |-> doc.metadata,
   embedding |-> vector]

\* the request is received: the files and the knowledge base id are there
StartBatch(op, kbId, docs) ==
  /\ call = IdleCall
  /\ call' = [pc |-> "findKb", op |-> op, kbId |-> kbId, docs |-> docs, at |-> 0,
              uploadedDocuments |-> <<>>, reindexed |-> 0, errors |-> <<>>, status |-> 0,
              chunks |-> <<>>, vectors |-> <<>>, i |-> 0, error |-> "",
              start |-> store, base |-> store, before |-> store, inserted |-> <<>>,
              failedAt |-> 0, log |-> <<>>]
  /\ UNCHANGED store /\ UNCHANGED documents /\ BatchFrame

\* kbRepository.findOne finds the knowledge base
FindKb ==
  /\ call.pc = "findKb"
  /\ call' = [call EXCEPT !.pc = IF call.op = "reindex" THEN "delete" ELSE "loop",
                          !.at = IF call.op = "reindex" THEN 0 ELSE 1]
  /\ UNCHANGED store /\ UNCHANGED documents /\ BatchFrame

\* reindex: documentRepository.find returned the documents; deleteKnowledgeBase
DeleteFirst ==
  /\ call.pc = "delete"
  /\ HasKey("OPENAI_API_KEY")                       \* getEmbeddings
  /\ store' = deleteByKnowledgeBase(store, call.kbId)
  /\ call' = [call EXCEPT !.pc = "loop", !.at = 1,
                          !.base = deleteByKnowledgeBase(store, call.kbId)]
  /\ UNCHANGED documents /\ BatchFrame

\* an awaited call outside the loop rejects: the outer catch answers 500
RequestThrows ==
  /\ call.pc \in {"findKb", "delete"}
  /\ call' = [call EXCEPT !.pc = "done", !.status = 500]
  /\ UNCHANGED store /\ UNCHANGED documents /\ BatchFrame

Current == call.docs[call.at]

InLoop == call.pc = "loop" /\ call.at \in DOMAIN call.docs

\* errors.push({...}); continue
Skipped(c, error) ==
  [c EXCEPT !.errors = Append(@, [id |-> c.docs[c.at].id, error |-> error]),
            !.log = Append(@, [id |-> c.docs[c.at].id, ok |-> FALSE, rows |-> <<>>]),
            !.at = @ + 1]

\* the ingest of the current document begins
Ingesting(c) ==
  [c EXCEPT !.pc = "ensure", !.before = store, !.inserted = <<>>, !.failedAt = 0,
            !.chunks = <<>>, !.vectors = <<>>, !.i = 0]

\* the file is read and its text extracted
ReadDocument ==
  /\ InLoop
  /\ call' =
       IF ~Current.onDisk
         THEN IF call.op = "reindex"
                THEN Skipped(call, "File not found on disk")
                ELSE [call EXCEPT !.pc = "thrown", !.error = "ENOENT"]
       ELSE IF ~Truthy(Current.text) \/ Trim(Current.text) = <<>>
         THEN Skipped(call, "no extractable text")
       ELSE IF call.op = "upload" THEN [call EXCEPT !.pc = "save"]
       ELSE Ingesting(call)
  /\ UNCHANGED store /\ UNCHANGED documents /\ BatchFrame

\* getPdfParse or parser.getText rejects
ReadDocumentThrows ==
  /\ InLoop
  /\ Current.onDisk
  /\ call' = [call EXCEPT !.pc = "thrown", !.error = "parse"]
  /\ UNCHANGED store /\ UNCHANGED documents /\ BatchFrame

\* upload: documentRepository.save(document)
SaveDocument ==
  /\ call.pc = "save"
  /\ documents' = (Current.id :> Current.fileName) @@ documents
  /\ call' = Ingesting(call)
  /\ UNCHANGED store /\ BatchFrame

\* ingestDocument: the schema guard resolves, the text is split
IngestSplit ==
  /\ call.pc = "ensure"
  /\ call' = [call EXCEPT !.pc = "embed",
                !.chunks = createDocuments(Current.text, IngestMetadata(call.kbId, Current))]
  /\ UNCHANGED store /\ UNCHANGED documents /\ BatchFrame

\* getEmbeddings, addDocuments: embeddings.embedDocuments(texts)
IngestEmbed ==
  /\ call.pc = "embed"
  /\ HasKey("OPENAI_API_KEY")
  /\ call' = [call EXCEPT !.pc = "connect",
                !.vectors = embedDocuments([j \in DOMAIN call.chunks |->
                                              call.chunks[j].pageContent])]
  /\ UNCHANGED store /\ UNCHANGED documents /\ BatchFrame

\* addVectors: pool.connect()
IngestConnect ==
  /\ call.pc = "connect"
  /\ call' = [call EXCEPT !.pc = "insert", !.i = 1]
  /\ UNCHANGED store /\ UNCHANGED documents /\ BatchFrame

\* addVectors: the INSERT of documents[i], committed on its own
IngestInsert ==
  /\ call.pc = "insert"
  /\ call.i \in DOMAIN call.chunks
  /\ LET row == VectorRow(call.kbId, call.chunks[call.i], call.vectors[call.i])
     IN /\ store' = InsertRow(store, row)
        /\ call' = [call EXCEPT !.i = @ + 1, !.inserted = Append(@, row)]
  /\ UNCHANGED documents /\ BatchFrame

\* a variant of IngestInsertThrows in which the inserts are one transaction
IngestInsertThrowsRollsBack ==
  /\ call.pc = "insert"
  /\ call.i \in DOMAIN call.chunks
  /\ store' = call.before
  /\ call' = [call EXCEPT !.pc = "thrown", !.error = "insert", !.failedAt = call.i]
  /\ UNCHANGED documents /\ BatchFrame

\* addVectors: the INSERT of documents[i] rejects; finally client.release()
IngestInsertThrows ==
  /\ call.pc = "insert"
  /\ call.i \in DOMAIN call.chunks
  /\ call' = [call EXCEPT !.pc = "thrown", !.error = "insert", !.failedAt = call.i]
  /\ UNCHANGED store /\ UNCHANGED documents /\ BatchFrame

\* the schema guard, createDocuments, getEmbeddings or embedDocuments,
\* pool.connect, or (upload) documentRepository.save rejects
DocumentThrows ==
  /\ call.pc \in {"save", "ensure", "embed", "connect"}
  /\ call' = [call EXCEPT !.pc = "thrown", !.error = call.pc]
  /\ UNCHANGED store /\ UNCHANGED documents /\ BatchFrame

\* addVectors ends, client.release(), ingestDocument resolves
IngestReturn ==
  /\ call.pc = "insert"
  /\ call.i > Len(call.chunks)
  /\ call' = [call EXCEPT !.pc = "returned"]
  /\ UNCHANGED store /\ UNCHANGED documents /\ BatchFrame

\* uploadedDocuments.push(...) or reindexed++
DocumentSucceeded ==
  /\ call.pc = "returned"
  /\ call' = [call EXCEPT
                !.pc = "loop",
                !.uploadedDocuments = IF call.op = "upload" THEN Append(@, Current.id) ELSE @,
                !.reindexed = IF call.op = "reindex" THEN @ + 1 ELSE @,
                !.log = Append(@, [id |-> Current.id, ok |-> TRUE, rows |-> call.inserted]),
                !.at = @ + 1]
  /\ UNCHANGED store /\ UNCHANGED documents /\ BatchFrame

\* a variant of DocumentCaught in which the error ends the request
DocumentCaughtEndsRequest ==
  /\ call.pc = "thrown"
  /\ call' = [call EXCEPT !.pc = "done", !.status = 500]
  /\ UNCHANGED store /\ UNCHANGED documents /\ BatchFrame

\* the catch clause of the loop body: errors.push(...)
DocumentCaught ==
  /\ call.pc = "thrown"
  /\ call' = [call EXCEPT
                !.pc = "loop",
                !.errors = Append(@, [id |-> Current.id, error |-> call.error]),
                !.log = Append(@, [id |-> Current.id, ok |-> FALSE, rows |-> call.inserted]),
                !.at = @ + 1]
  /\ UNCHANGED store /\ UNCHANGED documents /\ BatchFrame

\* the loop is over: the response
Respond ==
  /\ call.pc = "loop"
  /\ call.at > Len(call.docs)
  /\ call' = [call EXCEPT
                !.pc = "done",
                !.status = IF call.op = "reindex" THEN 200
                           ELSE IF Len(call.uploadedDocuments) = 0 THEN 400 ELSE 201]
  /\ UNCHANGED store /\ UNCHANGED documents /\ BatchFrame

NextBatch ==
  \/ \E op \in {"upload", "reindex"}, docs \in Batches : StartBatch(op, "a", docs)
  \/ FindKb
  \/ DeleteFirst
  \/ RequestThrows
  \/ ReadDocument
  \/ ReadDocumentThrows
  \/ SaveDocument
  \/ IngestSplit
  \/ IngestEmbed
  \/ IngestConnect
  \/ IngestInsert
  \/ IngestInsertThrows
  \/ DocumentThrows
  \/ IngestReturn
  \/ DocumentSucceeded
  \/ DocumentCaught
  \/ Respond

SpecBatch == InitBatch /\ [][NextBatch]_vars

(***************************************************************************)
(* services/rag/ragSchema.ts: ensurePgVectorSchema.  Every await is a point *)
(* at which another caller may run.                                        *)
(***************************************************************************)
\* the statements of the creation sequence, in order
SchemaStatements ==
  <<"CREATE EXTENSION uuid-ossp", "CREATE EXTENSION vector", "CREATE TABLE kb_documents",
    "CREATE INDEX kb_documents_kb_id_idx", "CREATE INDEX kb_documents_embedding_hnsw_idx">>

GuardVars == <<store, documents, env, configRow, cachedConfig, cachedKey, cachedLLM, call,
               cacheVars>>

\* if (initialized) return; otherwise pgPool.connect() is awaited
EnsureEnter(p) ==
  /\ guards[p].pc = "idle"
  /\ guards' = [guards EXCEPT ![p] =
                  IF initialized
                    THEN [IdleGuard EXCEPT !.pc = "done", !.outcome = "skipped"]
                    ELSE [IdleGuard EXCEPT !.pc = "connect"]]
  /\ UNCHANGED <<initialized, GuardVars>>

\* pgPool.connect() resolves: the first statement is sent
EnsureConnect(p) ==
  /\ guards[p].pc = "connect"
  /\ guards' = [guards EXCEPT ![p].pc = "create"]
  /\ UNCHANGED <<initialized, GuardVars>>

\* pgPool.connect() rejects
EnsureConnectThrows(p) ==
  /\ guards[p].pc = "connect"
  /\ guards' = [guards EXCEPT ![p].pc = "done", ![p].outcome = "error"]
  /\ UNCHANGED <<initialized, GuardVars>>

\* the database executes the statement the caller awaits; the caller sends the next
EnsureStatement(p) ==
  /\ guards[p].pc = "create"
  /\ guards[p].executed < Len(SchemaStatements)
  /\ guards' = [guards EXCEPT ![p].executed = @ + 1]
  /\ UNCHANGED <<initialized, GuardVars>>

\* the statement the caller awaits fails: finally releases the client
EnsureStatementThrows(p) ==
  /\ guards[p].pc = "create"
  /\ guards[p].executed < Len(SchemaStatements)
  /\ guards' = [guards EXCEPT ![p].pc = "done", ![p].outcome = "error"]
  /\ UNCHANGED <<initialized, GuardVars>>

\* the last statement has resolved: initialized = true
EnsureInitialized(p) ==
  /\ guards[p].pc = "create"
  /\ guards[p].executed = Len(SchemaStatements)
  /\ initialized' = TRUE
  /\ guards' = [guards EXCEPT ![p].pc = "done", ![p].outcome = "created"]
  /\ UNCHANGED GuardVars

NextSchema ==
  \E p \in Callers :
    \/ EnsureEnter(p)
    \/ EnsureConnect(p)
    \/ EnsureConnectThrows(p)
    \/ EnsureStatement(p)
    \/ EnsureStatementThrows(p)
    \/ EnsureInitialized(p)

SpecSchema == Init /\ [][NextSchema]_vars

(***************************************************************************)
(* services/configService.ts with its clock, and LLMProviderService.getLLM *)
(* on top of it, called by concurrent callers.  Every await is a point at  *)
(* which another caller, an update of the stored configuration or the      *)
(* clock may run.                                                          *)
(***************************************************************************)
getCacheTtlMs(raw) ==
  LET v == EnvNumber(raw, DefaultCacheTtlMs)
  IN IF v.fin /\ v.n >= 0 THEN v.n ELSE DefaultCacheTtlMs

CacheSettings == {Null, <<"2">>, <<"-", "1">>}

\* the configurations an update stores
CacheRows ==
  {[llmProvider |-> "OPENAI", model |-> <<"gpt-4o">>, temperature |-> <<"0.1">>],
   [llmProvider |-> "OPENAI", model |-> <<"gpt-4o">>, temperature |-> <<"0.7">>]}

\* the readings of the clock, in milliseconds
ClockReadings == {0, 2, DefaultCacheTtlMs, DefaultCacheTtlMs + 2}

InitWith(settings, absent) ==
  /\ store = EmptyBag
  /\ documents = (<<"d1">> :> <<"manual.pdf">>)
  /\ \E s \in {u \in StartUps : /\ "OPENAI_API_KEY" \in u.env.keys
                                /\ u.env.RAG_TOP_K # Null
                                /\ (u.row = <<>>) \in absent} :
       /\ env = s.env
       /\ configRow = s.row
  /\ cachedConfig = <<>>
  /\ cachedKey = <<>>
  /\ cachedLLM = <<>>
  /\ call = IdleCall
  /\ initialized = FALSE
  /\ guards = [p \in Callers |-> IdleGuard]
  /\ AI_CONFIG_CACHE_MS \in settings
  /\ clock = 0
  /\ cachedAtMs = 0
  /\ readers = [p \in Callers |-> IdleReader]
  /\ audit = NoAudit

CacheFrame == <<store, documents, env, call, schemaVars, AI_CONFIG_CACHE_MS>>

\* time passes
Advance(reading) ==
  /\ reading > clock
  /\ clock' = reading
  /\ UNCHANGED <<CacheFrame, configRow, cachedConfig, cachedAtMs, cachedKey, cachedLLM,
                 readers, audit>>

\* the stored configuration is replaced (by the configuration front-end)
UpdateConfiguration(row) ==
  /\ audit.writes < MaxWrites
  /\ configRow # <<row>>
  /\ configRow' = <<row>>
  /\ audit' = [audit EXCEPT !.writes = @ + 1, !.fresh = FALSE, !.inFlight = {}]
  /\ readers' = [p \in Callers |-> [readers[p] EXCEPT !.after = FALSE]]
  /\ UNCHANGED <<CacheFrame, clock, cachedConfig, cachedAtMs, cachedKey, cachedLLM>>

\* a variant of invalidateDefaultAIConfigCache that leaves the cache as it is
InvalidateKeepsCache(cached, at) == [cachedConfig |-> cached, cachedAtMs |-> at]

\* invalidateDefaultAIConfigCache: cachedConfig = null; cachedAtMs = 0
invalidateDefaultAIConfigCache(cached, at) == [cachedConfig |-> <<>>, cachedAtMs |-> 0]

\* the front-end calls invalidateDefaultAIConfigCache() after its update
Invalidate ==
  /\ audit.writes > 0
  /\ ~audit.fresh
  /\ LET o == invalidateDefaultAIConfigCache(cachedConfig, cachedAtMs)
     IN /\ cachedConfig' = o.cachedConfig
        /\ cachedAtMs' = o.cachedAtMs
  /\ audit' = [audit EXCEPT
       !.fresh = TRUE,
       !.inFlight = {p \in Callers : readers[p].pc \in {"find", "save", "cache"}}]
  /\ UNCHANGED <<CacheFrame, clock, configRow, cachedKey, cachedLLM, readers>>

\* a variant of ServedFromCache that ignores the age of the cached configuration
ServedFromCacheWhenSet(cached, now, at, ttl) == cached # <<>>

\* if (cachedConfig && now - cachedAtMs <= ttl) return cachedConfig
ServedFromCache(cached, now, at, ttl) == cached # <<>> /\ now - at <= ttl

\* getDefaultAIConfig up to its first await, called for itself or by getLLM
ConfigEnter(p, purpose) ==
  /\ readers[p].pc = "idle"
  /\ audit.calls < (IF purpose = "llm" THEN MaxLLMCalls ELSE MaxConfigCalls)
  /\ LET ttl == getCacheTtlMs(AI_CONFIG_CACHE_MS)
         now == clock
         r == [IdleReader EXCEPT !.purpose = purpose, !.now = now, !.after = audit.fresh]
     IN readers' = [readers EXCEPT ![p] =
          IF ServedFromCache(cachedConfig, now, cachedAtMs, ttl)
            THEN [r EXCEPT !.pc = "return", !.config = cachedConfig, !.hit = TRUE,
                           !.origin = audit.cached]
            ELSE [r EXCEPT !.pc = "find"]]
  /\ audit' = [audit EXCEPT !.calls = @ + 1]
  /\ UNCHANGED <<CacheFrame, clock, configRow, cachedConfig, cachedAtMs, cachedKey, cachedLLM>>

\* configRepository.findOne reads the store
ConfigFind(p) ==
  /\ readers[p].pc = "find"
  /\ readers' = [readers EXCEPT ![p] =
       [@ EXCEPT !.pc = IF configRow = <<>> THEN "save" ELSE "cache",
                 !.config = IF configRow = <<>> THEN <<DEFAULT_CONFIG>> ELSE configRow,
                 !.origin = [readAt |-> clock, startedAt |-> readers[p].now,
                             raced |-> FALSE]]]
  /\ UNCHANGED <<CacheFrame, clock, configRow, cachedConfig, cachedAtMs, cachedKey, cachedLLM,
                 audit>>

\* configRepository.save stores the row created from DEFAULT_CONFIG
ConfigSave(p) ==
  /\ readers[p].pc = "save"
  /\ configRow' = IF configRow = <<>> THEN <<DEFAULT_CONFIG>> ELSE configRow
  /\ readers' = [readers EXCEPT ![p] = [@ EXCEPT !.pc = "cache", !.origin.readAt = clock]]
  /\ UNCHANGED <<CacheFrame, clock, cachedConfig, cachedAtMs, cachedKey, cachedLLM, audit>>

\* findOne or save rejects, and with it the call
ConfigThrows(p) ==
  /\ readers[p].pc \in {"find", "save"}
  /\ readers' = [readers EXCEPT ![p] = IdleReader]
  /\ audit' = [audit EXCEPT !.inFlight = @ \ {p}]
  /\ UNCHANGED <<CacheFrame, clock, configRow, cachedConfig, cachedAtMs, cachedKey, cachedLLM>>

\* cachedConfig = config; cachedAtMs = now; return config
ConfigCache(p) ==
  /\ readers[p].pc = "cache"
  /\ cachedConfig' = readers[p].config
  /\ cachedAtMs' = readers[p].now
  /\ LET origin == [readers[p].origin EXCEPT !.raced = p \in audit.inFlight]
     IN /\ readers' = [readers EXCEPT ![p] = [@ EXCEPT !.pc = "return", !.origin = origin]]
        /\ audit' = [audit EXCEPT !.cached = origin, !.inFlight = @ \ {p}]
  /\ UNCHANGED <<CacheFrame, clock, configRow, cachedKey, cachedLLM>>

\* the caller of getDefaultAIConfig resumes with the configuration
ConfigReturn(p) ==
  /\ readers[p].pc = "return"
  /\ readers[p].purpose = "config"
  /\ readers' = [readers EXCEPT ![p] = IdleReader]
  /\ UNCHANGED <<CacheFrame, clock, configRow, cachedConfig, cachedAtMs, cachedKey, cachedLLM,
                 audit>>

\* getLLM resumes with the configuration and runs to its end
GetLLMResume(p) ==
  /\ readers[p].pc = "return"
  /\ readers[p].purpose = "llm"
  /\ LET config == readers[p].config[1]
         o == getLLM(config, env.keys, cachedKey, cachedLLM)
         constructed == o.ok /\ ~(cachedKey = <<CacheKey(config)>> /\ cachedLLM # <<>>)
         serial == IF constructed THEN audit.built + 1 ELSE audit.built
         madeFrom == IF constructed THEN <<config>> ELSE audit.madeFrom
     IN /\ cachedKey' = o.cachedKey
        /\ cachedLLM' = o.cachedLLM
        /\ audit' = [audit EXCEPT
             !.built = serial,
             !.madeFrom = madeFrom,
             !.log = IF o.ok
                       THEN Append(@, [read |-> config, llm |-> o.llm[1], serial |-> serial,
                                       madeFrom |-> madeFrom[1]])
                       ELSE @]
  /\ readers' = [readers EXCEPT ![p] = IdleReader]
  /\ UNCHANGED <<CacheFrame, clock, configRow, cachedConfig, cachedAtMs>>

\* concurrent getDefaultAIConfig calls, updates and invalidations, and the clock
NextCache ==
  \/ \E reading \in ClockReadings : Advance(reading)
  \/ \E row \in CacheRows : UpdateConfiguration(row)
  \/ Invalidate
  \/ \E p \in Callers :
       \/ ConfigEnter(p, "config")
       \/ ConfigFind(p)
       \/ ConfigSave(p)
       \/ ConfigThrows(p)
       \/ ConfigCache(p)
       \/ ConfigReturn(p)

SpecCache == InitWith(CacheSettings, {TRUE}) /\ [][NextCache]_vars

\* concurrent getLLM calls, updates and invalidations, the clock standing still
NextLLM ==
  \/ \E row \in CacheRows : UpdateConfiguration(row)
  \/ Invalidate
  \/ \E p \in Callers :
       \/ ConfigEnter(p, "llm")
       \/ ConfigFind(p)
       \/ ConfigSave(p)
       \/ ConfigThrows(p)
       \/ ConfigCache(p)
       \/ GetLLMResume(p)

SpecLLM == InitWith({Null}, BOOLEAN) /\ [][NextLLM]_vars

(***************************************************************************)
(* Properties.                                                             *)
(***************************************************************************)
Done == call.pc = "done"

ReturnedOk == Done /\ call.outcome = "ok"

ThroughQuery == "query" \in Range(call.path)

InGlobal == "global" \in Range(call.path)

\* some similarity search of the call returned a row
SomethingRetrieved == \E i \in DOMAIN call.searches : call.searches[i].n > 0

\* the retrieval of the call completed and found nothing
EmptyRetrieval == call.retrieved /\ ~SomethingRetrieved

HasSourcesHeader(text) == \E i \in DOMAIN text : text[i] = "\n\nSources:\n"

\* the sources section the tier of the call appends to the model's text
TierSourcesSection ==
  IF call.tier = "global" THEN <<>> ELSE formatSourcesSection(call.sources)

\* C1: when the similarity search of query returns no result, query enters
\* queryGlobal with its own question, instructions and history, every provider
\* request of the call is the one queryGlobal makes for those arguments, and
\* query returns exactly what queryGlobal returns, with no sources of its own.
C1_EmptyQueryReturnsQueryGlobal ==
  (ThroughQuery /\ EmptyRetrieval) =>
    LET direct == [call EXCEPT !.g = [call.q EXCEPT !.kbId = ""]]
    IN /\ call.path[Len(call.path)] = "global"
       /\ call.g = direct.g
       /\ call.sources = <<>>
       /\ call.ret = call.gret
       /\ \A i \in DOMAIN call.requests :
            call.requests[i] \in
              {WebRequest(direct),
               Request("structured", "global", GlobalMessages(direct)),
               Request("flat", "global", GlobalFlatInput(direct))}

\* C1: query was called with instructions and a history on a collection without
\* chunks (other collections hold some) and has returned an answer
C1_Witness ==
  /\ ReturnedOk
  /\ call.op = "query"
  /\ EmptyRetrieval
  /\ BagCardinality(store) > 0
  /\ call.q.instr # Null
  /\ call.q.hist.defined
  /\ call.ret # <<>>

C3_GlobalOnlyWhenNothingRetrieved ==
  /\ InGlobal =>
       /\ ~SomethingRetrieved
       /\ \/ call.op = "global"
          \/ call.op = "across" /\ UniqueKbIds(call.kbIds) = <<>>
          \/ call.retrieved
  /\ (call.retrieved /\ SomethingRetrieved) =>
       /\ ~InGlobal
       /\ call.tier \in {"single", "merged"}
       /\ call.results # <<>>
       /\ call.context # <<>>
       /\ call.gret = Null
       /\ \A i \in DOMAIN call.requests : call.requests[i].tier = call.tier

\* C3: a merged retrieval found two chunks and the call has answered from them
C3_Witness ==
  /\ ReturnedOk
  /\ call.tier = "merged"
  /\ Len(call.results) >= 2
  /\ call.requests # <<>>

\* C4: a flattened request is made only as the second request, after the
\* structured request of the same tier threw; when the structured request threw
\* there is exactly one more request, the flattened one, and its text (with the
\* sources section of the scoped tiers) is what the call returns; when the
\* structured request succeeded it is the only request.
C4_StructuredFailureRetriesFlatOnce ==
  /\ \A i \in DOMAIN call.requests :
       call.requests[i].kind = "flat" =>
         /\ i = 2
         /\ call.requests[1].kind = "structured"
         /\ call.replies[1].threw
         /\ call.requests[2].tier = call.requests[1].tier
         /\ Len(call.requests[2].input) = 1
  /\ (Done /\ "structured" \in call.threw) =>
       /\ Len(call.requests) = 2
       /\ call.requests[2].kind = "flat"
       /\ ~call.replies[2].threw =>
            /\ call.outcome = "ok"
            /\ call.ret = toText(call.replies[2].resp) \o TierSourcesSection
  /\ (/\ Done
      /\ call.requests # <<>>
      /\ call.requests[1].kind = "structured"
      /\ ~call.replies[1].threw) =>
       /\ Len(call.requests) = 1
       /\ call.outcome = "ok"
       /\ call.ret = toText(call.replies[1].resp) \o TierSourcesSection

\* C4: the structured request of a single-collection query threw and the call
\* has returned the text of the flattened request with its sources
C4_Witness ==
  /\ ReturnedOk
  /\ "structured" \in call.threw
  /\ call.tier = "single"
  /\ call.sources # <<>>
  /\ call.replies[2].resp.content # <<>>

\* C5: a call makes at most two provider requests; when the flattened retry or
\* the web-search request throws, the call ends with an error and no answer,
\* the throwing request is its last one, every request was made in the tier the
\* call was in, and a scoped call has not entered queryGlobal.
C5_FailedRetryFailsTheCall ==
  /\ Len(call.requests) <= 2
  /\ (/\ Done
      /\ \E i \in DOMAIN call.requests :
           call.replies[i].threw /\ call.requests[i].kind \in {"flat", "web"}) =>
       /\ call.outcome = "error"
       /\ call.ret = Null
       /\ call.gret = Null
       /\ call.replies[Len(call.replies)].threw
       /\ \A i \in DOMAIN call.requests : call.requests[i].tier = call.tier
       /\ call.tier # "global" => ~InGlobal

\* C5: both requests of a merged call threw and the call has ended
C5_Witness ==
  /\ Done
  /\ call.tier = "merged"
  /\ Len(call.requests) = 2
  /\ call.replies[1].threw
  /\ call.replies[2].threw

\* C6 as stated: a call that completes successfully returns a non-empty answer
C6_AnswerIsNeverEmpty == ReturnedOk => (call.ret # <<>> /\ call.ret # Null)

\* the provider configured at start-up (config.llmProvider || OPENAI)
ConfiguredProvider ==
  ProviderOf(IF configRow = <<>> THEN DEFAULT_CONFIG ELSE configRow[1])

\* the web-search response carries a citation: a url_citation annotation with a
\* url, in a content part of a message item
ProviderCited(body) ==
  \E i \in DOMAIN body.output :
    /\ body.output[i].type = "message"
    /\ \E j \in DOMAIN body.output[i].content :
         \E k \in DOMAIN body.output[i].content[j].annotations :
           LET ann == body.output[i].content[j].annotations[k]
           IN /\ ann.type \in {"url_citation", "url-citation"}
              /\ \/ ann.url \notin {Null, <<>>}
                 \/ ann.url = Null /\ ann.nestedUrl \notin {Null, <<>>}

\* C7 as stated: with provider OpenAI, and no storage or provider request
\* failing, queryGlobal with the credential makes the web-search request and
\* returns its answer with a 'Sources:' section iff a citation came back, and
\* without the credential returns a plain model answer with no such section
C7_WebSearchElsePlainAnswer ==
  (/\ Done
   /\ call.tier = "global"
   /\ ConfiguredProvider = "OPENAI"
   /\ call.threw \cap {"storage", "structured", "flat", "web"} = {})
  => IF HasKey("OPENAI_API_KEY")
       THEN /\ Len(call.requests) = 1
            /\ call.requests[1].kind = "web"
            /\ call.outcome = "ok"
            /\ HasSourcesHeader(call.ret) <=> ProviderCited(call.replies[1].body)
       ELSE /\ call.requests # <<>>
            /\ \A i \in DOMAIN call.requests :
                 call.requests[i].kind \in {"structured", "flat"}
            /\ call.outcome = "ok"
            /\ ~HasSourcesHeader(call.ret)

\* C7, amended: with provider OpenAI and its credential, queryGlobal makes the
\* web-search request only, and a returned answer carries a 'Sources:' section
\* iff a citation came back; otherwise it makes no web-search request, a
\* returned answer is a plain model answer without such a section, and when the
\* credential of the configured provider is absent (OpenAI's included) the call
\* makes no request at all and ends with the configuration error.
C7_WebSearchElsePlainBranch ==
  (Done /\ call.tier = "global") =>
    IF ConfiguredProvider = "OPENAI" /\ HasKey("OPENAI_API_KEY")
      THEN /\ Len(call.requests) <= 1
           /\ \A i \in DOMAIN call.requests : call.requests[i].kind = "web"
           /\ call.outcome = "ok" =>
                /\ Len(call.requests) = 1
                /\ HasSourcesHeader(call.ret) <=> ProviderCited(call.replies[1].body)
      ELSE /\ \A i \in DOMAIN call.requests :
                call.requests[i].kind \in {"structured", "flat"}
           /\ call.outcome = "ok" =>
                /\ call.requests # <<>>
                /\ ~HasSourcesHeader(call.ret)
                /\ HasKey(KeyVariable(ConfiguredProvider))
           /\ ~HasKey(KeyVariable(ConfiguredProvider)) =>
                /\ call.requests = <<>>
                /\ call.outcome = "error"
                /\ call.ret = Null

\* C7: queryGlobal has returned a web-search answer that has no text of its own
\* and one citation
C7_Witness ==
  /\ ReturnedOk
  /\ call.op = "global"
  /\ call.requests[1].kind = "web"
  /\ ProviderCited(call.replies[1].body)
  /\ HasSourcesHeader(call.ret)
  /\ Head(call.ret) = "\n\nSources:\n"

\* C8: every result of the search of a collection is a row stored under that
\* collection, and every result a merged retrieval keeps is a row of one of the
\* requested collections, namely of one whose own search found something.
C8_ResultsStayInScope ==
  /\ call.tier = "single" =>
       \A i \in DOMAIN call.results : call.results[i].kb = call.q.kbId
  /\ \A j \in call.fetched :
       \A i \in DOMAIN call.perKb[j] : call.perKb[j][i].kb = call.unique[j]
  /\ call.tier = "merged" =>
       \A i \in DOMAIN call.results :
         /\ call.results[i].kb \in Range(call.kbIds)
         /\ \E j \in DOMAIN call.unique :
              call.perKb[j] # <<>> /\ call.unique[j] = call.results[i].kb

\* C8: a merge over two collections, one of which had no match, kept results
C8_Witness ==
  /\ call.tier = "merged"
  /\ Len(call.unique) = 2
  /\ \E j \in DOMAIN call.unique : call.perKb[j] = <<>>
  /\ call.results # <<>>

\* C9: the merged retrieval result has at most topK entries, topK being the
\* configured top-k within 2..12, and its scores never increase.
C9_MergedIsBoundedAndSorted ==
  call.tier = "merged" =>
    /\ call.topK \in 2..12
    /\ Len(call.results) <= call.topK
    /\ \A i, j \in DOMAIN call.results :
         i < j => call.results[i].score >= call.results[j].score

\* C9: the searches found more than topK chunks, the first collection's best
\* below the second's, and the merge was built
C9_Witness ==
  /\ call.tier = "merged"
  /\ Len(Flat(call.perKb)) > call.topK
  /\ call.perKb[1] # <<>>
  /\ call.perKb[2] # <<>>
  /\ call.perKb[1][1].score < call.perKb[2][1].score

\* C10: the k of the similarity search of query is the RAG_TOP_K setting
\* clamped to 2..12, and 4 when the setting is absent, empty or no finite
\* number; the search returns at most k rows.
C10_TopKIsClamped ==
  ThroughQuery =>
    \A i \in DOMAIN call.searches :
      LET k == call.searches[i].k
      IN /\ call.searches[i].n <= k
         /\ env.RAG_TOP_K \in NoFiniteSetting => k = 4
         /\ \A n \in (0 - MaxSetting)..MaxSetting :
              env.RAG_TOP_K = DecimalString(n) =>
                k = (IF n < 2 THEN 2 ELSE IF n > 12 THEN 12 ELSE n)

\* C10: query has searched with RAG_TOP_K set to 13
C10_Witness ==
  /\ ThroughQuery
  /\ call.searches # <<>>
  /\ env.RAG_TOP_K = <<"1", "3">>
  /\ call.searches[1].k = 12

\* the rows (instances) of a collection now in the table
Collection(kbId) == {x \in RowInstances(store) : x[1].kb_id = kbId}

RECURSIVE InAnyOrder(_)
\* the elements of a finite set, as a sequence
InAnyOrder(S) ==
  IF S = {} THEN <<>>
  ELSE LET x == CHOOSE y \in S : TRUE IN <<x>> \o InAnyOrder(S \ {x})

\* the k highest cosine similarities to queryVector in a collection, highest first
TopCosine(kbId, queryVector, k) ==
  LET rows == InAnyOrder(Collection(kbId))
  IN Slice(SortByScoreDesc([i \in DOMAIN rows |->
                              [score |-> CosineScore(rows[i][1].embedding, queryVector)]]),
           k)

\* C11 as stated: the search of a collection returns min(k, |collection|) chunks,
\* their scores being the highest cosine similarities to the query vector found
\* in the collection, highest first, whatever the length of the stored embeddings
C11_SearchReturnsTopCosine ==
  /\ call.tier = "single" =>
       [i \in DOMAIN call.results |-> [score |-> call.results[i].score]]
         = TopCosine(call.q.kbId, embedQuery(call.q.question), call.topK)
  /\ (call.op = "query" /\ EmptyRetrieval) => Collection(call.q.kbId) = {}

\* the deduplication key of a chunk: the first non-empty of its metadata's
\* documentId, sourceUrl and fileName, else "unknown"
DedupKey(doc) ==
  IF Truthy(doc.metadata.documentId) THEN doc.metadata.documentId
  ELSE IF Truthy(doc.metadata.sourceUrl) THEN doc.metadata.sourceUrl
  ELSE IF Truthy(doc.metadata.fileName) THEN doc.metadata.fileName
  ELSE <<"unknown">>

\* the positions of the results whose key no earlier result has
FirstOfKey(results) ==
  {i \in DOMAIN results :
     \A h \in 1..(i - 1) : DedupKey(results[h].doc) # DedupKey(results[i].doc)}

Scoped == call.tier \in {"single", "merged"}

\* C12: the sources built from the retrieval results have exactly one entry per
\* distinct deduplication key (documentId, else sourceUrl, else fileName, else
\* "unknown"), numbered 1, 2, ... in the order in which the keys first occur and
\* labelled from the first chunk of the key; results that share a documentId
\* share one entry.
C12_OneSourcePerKey ==
  Scoped =>
    LET results == call.results
        names == loadDocumentNames(DocumentIds, documents)
    IN /\ Len(call.sources) = Cardinality({DedupKey(results[i].doc) : i \in DOMAIN results})
       /\ \A j \in DOMAIN call.sources : call.sources[j].idx = j
       /\ \A i \in FirstOfKey(results) :
            LET j == Cardinality({h \in FirstOfKey(results) : h <= i})
            IN call.sources[j].label = SourceLabel(results[i].doc, names)
       /\ \A i, h \in DOMAIN results :
            (/\ Truthy(results[i].doc.metadata.documentId)
             /\ results[i].doc.metadata.documentId = results[h].doc.metadata.documentId)
            => Cardinality({g \in FirstOfKey(results) :
                              DedupKey(results[g].doc) = DedupKey(results[i].doc)}) = 1

\* C12: three chunks were retrieved, two of them of one document, and two
\* sources were built
C12_Witness ==
  /\ call.tier = "single"
  /\ Len(call.results) = 3
  /\ Len(call.sources) = 2
  /\ \E i, h \in DOMAIN call.results :
       /\ i # h
       /\ call.results[i].doc.pageContent # call.results[h].doc.pageContent
       /\ Truthy(call.results[i].doc.metadata.documentId)
       /\ call.results[i].doc.metadata.documentId = call.results[h].doc.metadata.documentId

RECURSIVE PositionsFrom(_, _, _)
\* the positions of a token in a text, from position i on, in increasing order
PositionsFrom(text, token, i) ==
  IF i > Len(text) THEN <<>>
  ELSE (IF text[i] = token THEN <<i>> ELSE <<>>) \o PositionsFrom(text, token, i + 1)

\* C13: the context has one block per retrieval result, duplicates of a document
\* included, in the order of the results; the i-th block carries the number i,
\* the score of the i-th result and its text, whatever the number of the
\* document's entry in the sources.
C13_ContextBlockPerResult ==
  Scoped =>
    LET results == call.results
        context == call.context
        starts == PositionsFrom(context, "### Source ", 1)
        separators == PositionsFrom(context, "\n\n---\n\n", 1)
        last(i) == IF i < Len(starts) THEN starts[i + 1] - 2 ELSE Len(context)
    IN /\ Len(starts) = Len(results)
       /\ Len(separators) = Len(results) - 1
       /\ \A i \in DOMAIN separators : separators[i] = starts[i + 1] - 1
       /\ \A i \in DOMAIN starts :
            LET text == results[i].doc.pageContent
            IN /\ context[starts[i] + 1] = ToString(i)
               /\ SubSeq(context, starts[i] + 3, starts[i] + 2 + Len(Fixed4(results[i].score)))
                    = Fixed4(results[i].score)
               /\ SubSeq(context, last(i) - Len(text) + 1, last(i)) = text

\* C13: three chunks were retrieved, the third of the document of the second, so
\* that the third block is numbered 3 and its document's source 2
C13_Witness ==
  /\ call.tier = "single"
  /\ Len(call.results) = 3
  /\ DedupKey(call.results[3].doc) = DedupKey(call.results[2].doc)
  /\ DedupKey(call.results[2].doc) # DedupKey(call.results[1].doc)
  /\ call.results[3].doc.pageContent # call.results[2].doc.pageContent
  /\ Len(call.sources) = 2

\* the history part of the input of a structured or web-search request
HandedHistory(request) == SubSeq(request.input, 2, Len(request.input) - 1)

\* handed is drawn from the last 12 of the caller's items, in their order: the
\* items with a content as role-tagged messages when skipping (the prompt
\* assembler), every item as it is otherwise (the web-search request)
DrawnFromLast12(handed, hist, skipping) ==
  LET last == IF hist.defined
                THEN [i \in 1..Min(12, Len(hist.items)) |->
                        hist.items[Len(hist.items) - Min(12, Len(hist.items)) + i]]
                ELSE <<>>
      kept == {i \in DOMAIN last : ~skipping \/ last[i].content \notin {<<>>, Null}}
      from(j) == CHOOSE i \in kept : Cardinality({h \in kept : h <= i}) = j
  IN /\ Len(handed) <= 12
     /\ Len(handed) = Cardinality(kept)
     /\ \A j \in DOMAIN handed :
          /\ handed[j].content = last[from(j)].content
          /\ handed[j].role = IF skipping THEN MessageType(last[from(j)].role)
                               ELSE last[from(j)].role
          /\ skipping => handed[j].content \notin {<<>>, Null}

\* C14: the history handed to the prompt assembler and the one in the web-search
\* request have at most 12 items, drawn from the last 12 items the caller
\* supplied, in their order with the most recent last; buildHistoryMessages
\* leaves out the items without content, the web-search request leaves out none.
C14_HistoryIsLastTwelve ==
  /\ Scoped => DrawnFromLast12(call.history, call.args.hist, TRUE)
  /\ \A i \in DOMAIN call.requests :
       LET request == call.requests[i]
       IN /\ request.kind = "structured" =>
               DrawnFromLast12(HandedHistory(request), call.args.hist, TRUE)
          /\ request.kind = "web" =>
               DrawnFromLast12(HandedHistory(request), call.args.hist, FALSE)

\* C14: a call with a history of more than 12 items, some without content among
\* the last 12, has made its structured request
C14_Witness ==
  /\ call.requests # <<>>
  /\ call.requests[1].kind = "structured"
  /\ Len(call.args.hist.items) > 12
  /\ Len(HandedHistory(call.requests[1])) \in 9..11

\* the distinct non-empty ids of the kbIds argument
ListedIds == Range(call.kbIds) \ {""}

\* C15: once queryAcrossKnowledgeBases has looked at its ids: with no usable id
\* it has entered queryGlobal with its own question, instructions and history,
\* searched nothing and returns what queryGlobal returns; with one distinct id
\* (repeated or not) it has entered query with that id and its own arguments,
\* every search is query's (that collection, k = topK) and the prompt is
\* query's; the concurrent fetch and the merge occur only with two or more
\* distinct ids, and then neither query nor an unmerged search occurs.
C15_AcrossDispatchesOnDistinctIds ==
  (call.op = "across" /\ call.pc # "across") =>
    LET n == Cardinality(ListedIds)
        a == call.args
    IN /\ n = 0 =>
            /\ call.path = <<"across", "global">>
            /\ call.g = Args("", a.question, a.instr, a.hist)
            /\ call.searches = <<>>
            /\ call.ret = call.gret
       /\ n = 1 =>
            /\ Len(call.path) >= 2 /\ call.path[2] = "query"
            /\ \E id \in ListedIds : call.q = Args(id, a.question, a.instr, a.hist)
            /\ Len(call.searches) <= 1
            /\ \A i \in DOMAIN call.searches :
                 /\ call.searches[i].kb \in ListedIds
                 /\ call.searches[i].k = EffectiveTopK(env.RAG_TOP_K)
            /\ call.tier \in {"none", "single", "global"}
            /\ call.tier = "single" =>
                 call.systemRules = buildSystemRules(trimInstructions(a.instr, MaxInstrChars))
            /\ InGlobal => call.g = Args("", a.question, a.instr, a.hist)
       /\ n >= 2 =>
            /\ ~ThroughQuery
            /\ call.tier \in {"none", "merged", "global"}
            /\ call.pc = "merge" => Len(call.unique) = n /\ Range(call.unique) = ListedIds
            /\ \A i \in DOMAIN call.searches :
                 call.searches[i].k = PerKbK(call.topK, n)
       /\ (call.unique # <<>> \/ call.fetched # {} \/ call.tier = "merged") => n >= 2

\* C15: queryAcrossKnowledgeBases was given the same id twice and has answered
\* from the chunks of that collection as query does
C15_Witness ==
  /\ ReturnedOk
  /\ call.op = "across"
  /\ Len(call.kbIds) = 2
  /\ Cardinality(ListedIds) = 1
  /\ call.tier = "single"
  /\ call.results # <<>>

\* the score the k=1 search of the i-th listed collection gave
BestScore(i) == call.perKb[i][1].score

\* C16 as stated: pickBestKnowledgeBase returns null when every listed
\* collection is empty, and otherwise the id of a listed collection whose best
\* (k=1) score no other listed collection exceeds; this for every id list, a
\* list of one collection included.
C16_PickReturnsBestOrNull ==
  (ReturnedOk /\ call.op = "pick") =>
    IF call.retrieved
      THEN IF \A i \in DOMAIN call.unique : call.perKb[i] = <<>>
             THEN call.ret = Null
             ELSE \E i \in DOMAIN call.unique :
                    /\ call.ret = <<call.unique[i]>>
                    /\ call.unique[i] \in ListedIds
                    /\ call.perKb[i] # <<>>
                    /\ \A j \in DOMAIN call.unique :
                         call.perKb[j] # <<>> => BestScore(i) >= BestScore(j)
      ELSE IF \A id \in ListedIds : Collection(id) = {}
             THEN call.ret = Null
             ELSE \E id \in ListedIds : call.ret = <<id>> /\ Collection(id) # {}

\* the table holds row as often as the table before the call did
Kept(row) == row \in DOMAIN store /\ store[row] = call.before[row]

\* the delete method failed without touching the table: the embeddings
\* credential is missing (deleteKnowledgeBase only) or the database failed
DeleteFailed ==
  /\ store = call.before
  /\ \/ call.threw = {"storage"}
     \/ /\ call.threw = {"credential"}
        /\ call.op = "deleteKnowledgeBase"
        /\ ~HasKey("OPENAI_API_KEY")

\* C17: after deleteKnowledgeBase(c) the table holds no chunk of c and every
\* chunk of every other collection as before, and nothing else; deleting c again
\* would leave this table as it is; on a collection that is already empty the
\* call changes nothing, and the call never fails on account of the table (it
\* fails only without the embeddings credential or when the database fails).
C17_DeleteCollectionIsIdempotent ==
  (Done /\ call.op = "deleteKnowledgeBase") =>
    LET c == call.args.kbId
    IN IF call.outcome = "ok"
         THEN /\ Collection(c) = {}
              /\ \A row \in DOMAIN call.before : row.kb_id # c => Kept(row)
              /\ DOMAIN store \subseteq DOMAIN call.before
              /\ deleteByKnowledgeBase(store, c) = store
              /\ (\A row \in DOMAIN call.before : row.kb_id # c) => store = call.before
         ELSE DeleteFailed

\* C17: deleteKnowledgeBase succeeded on a collection that was already empty
\* while the other collection held chunks
C17_Witness ==
  /\ ReturnedOk
  /\ call.op = "deleteKnowledgeBase"
  /\ call.before # EmptyBag
  /\ \A row \in DOMAIN call.before : row.kb_id # call.args.kbId
  /\ store = call.before

\* C18: after deleteDocument(c, d) the table holds no chunk of c tagged with
\* document d, and every other chunk as before: the chunks of c with another
\* or no documentId and all chunks of the other collections, those tagged d
\* included; nothing is added.
C18_DeleteDocumentFrame ==
  (Done /\ call.op = "deleteDocument") =>
    LET c == call.args.kbId
        d == call.documentId
        tagged(row) == row.kb_id = c /\ row.metadata.documentId = d
    IN IF call.outcome = "ok"
         THEN /\ \A row \in DOMAIN call.before :
                   IF tagged(row) THEN row \notin DOMAIN store ELSE Kept(row)
              /\ DOMAIN store \subseteq DOMAIN call.before
         ELSE DeleteFailed

\* C18: deleteDocument(c, d) removed a chunk while a chunk of c with another
\* documentId and a chunk of another collection tagged d stayed
C18_Witness ==
  /\ ReturnedOk
  /\ call.op = "deleteDocument"
  /\ \E r1, r2, r3 \in DOMAIN call.before :
       /\ r1.kb_id = call.args.kbId /\ r1.metadata.documentId = call.documentId
       /\ r2.kb_id = call.args.kbId /\ r2.metadata.documentId \notin {call.documentId, Null}
       /\ r3.kb_id # call.args.kbId /\ r3.metadata.documentId = call.documentId
       /\ DOMAIN store = {r2, r3}

\* a step in which the call in flight ran LLMProviderService.getLLM(): the step
\* out of the scoped prompt, or the step of queryGlobal's plain branch
GetLLMStep ==
  \/ /\ call.pc = "scoped"
     /\ call'.pc # "scoped"
  \/ /\ call.pc = "global"
     /\ call'.pc # "global"
     /\ \/ /\ call'.requests = call.requests
           /\ "credential" \in call'.threw
        \/ /\ Len(call'.requests) = Len(call.requests) + 1
           /\ call'.requests[Len(call'.requests)].kind = "structured"

\* the step ended the call with getLLM's configuration error
GetLLMFailed ==
  /\ call'.outcome = "error"
  /\ "credential" \in call'.threw
  /\ call'.requests = call.requests

\* C19: in every step in which getLLM runs, whatever was cached by earlier
\* calls: if the API key of the provider of the configuration getLLM obtained
\* is not set, the call fails with the configuration error before any request;
\* and a failing getLLM leaves cachedKey and cachedLLM as they were.
C19_GetLLMFailsWithoutCredential ==
  [][GetLLMStep =>
       LET selected == ProviderOf(cachedConfig'[1])
           absent == KeyVariable(selected) \notin env.keys
       IN /\ absent => GetLLMFailed
          /\ GetLLMFailed => (absent /\ cachedKey' = cachedKey /\ cachedLLM' = cachedLLM)]_vars

\* C19: a scoped call failed in getLLM for want of the selected provider's key
\* while the cache held the model an earlier call built for another provider
C19_Witness ==
  /\ Done
  /\ call.tier = "single"
  /\ call.outcome = "error"
  /\ "credential" \in call.threw
  /\ cachedLLM # <<>>
  /\ cachedKey # <<>>
  /\ cachedKey[1].provider # ProviderOf(cachedConfig[1])
  /\ KeyVariable(ProviderOf(cachedConfig[1])) \notin env.keys

\* the instructions block of system rules: the text between the header
\* "Global instructions:" and the first blank line; <<>> when there is no header
InstructionsBlock(rules) ==
  IF rules = <<>> \/ Head(rules) # "Global instructions:\n" THEN <<>>
  ELSE LET ends == PositionsFrom(rules, "\n\n", 1)
       IN SubSeq(rules, 2, IF ends = <<>> THEN Len(rules) ELSE ends[1] - 1)

\* text cut to the number of characters RAG_MAX_INSTRUCTIONS_CHARS allows
CutToMax(text) ==
  IF MaxInstrChars.fin /\ MaxInstrChars.n > 0 /\ MaxInstrChars.n < Len(text)
    THEN SubSeq(text, 1, MaxInstrChars.n)
    ELSE text

\* C20 as stated: the system rules of every request of queryGlobal carry a
\* non-empty instructions block, which is the caller's instructions (cut to the
\* maximum length) when the caller supplied some and the fixed generic
\* instructions when it supplied none
C20_GlobalRulesCarryInstructions ==
  \A i \in DOMAIN call.requests :
    (call.requests[i].tier = "global" /\ call.requests[i].kind \in {"structured", "web"}) =>
      LET block == InstructionsBlock(call.requests[i].input[1].content)
      IN /\ block # <<>>
         /\ block = CutToMax(IF call.g.instr \in {Null, <<>>}
                               THEN GLOBAL_FALLBACK_PROMPT_INSTRUCTIONS
                               ELSE call.g.instr)

\* the callers for which statements of the creation sequence were executed and
\* none failed
Creators == {p \in Callers : guards[p].executed > 0 /\ guards[p].outcome # "error"}

\* C21 as stated: of the callers that invoke the schema guard before any
\* initialization has completed, at most one has the creation sequence executed
C21_OneCallerCreatesTheSchema == Cardinality(Creators) <= 1

\* the fields of a configuration that make up its fingerprint
Fingerprint(config) == <<ProviderOf(config), config.model, config.temperature>>

\* C22: of the successful getLLM calls, in the order in which they returned:
\* the model returned was constructed from a configuration with the fingerprint
\* of the one the call read, and is the model that configuration gives; a call
\* reading the fingerprint the call before it read returns the same instance; a
\* call reading another fingerprint returns an instance no call before it
\* returned; and the instance returned last is the cached one.
C22_ModelMatchesConfigurationRead ==
  LET log == audit.log
  IN /\ \A i \in DOMAIN log :
          /\ Fingerprint(log[i].madeFrom) = Fingerprint(log[i].read)
          /\ log[i].llm = ConstructLLM(log[i].read)
          /\ i > 1 =>
               IF Fingerprint(log[i].read) = Fingerprint(log[i - 1].read)
                 THEN log[i].serial = log[i - 1].serial
                 ELSE \A j \in 1..(i - 1) : log[j].serial < log[i].serial
     /\ log # <<>> =>
          /\ cachedLLM = <<log[Len(log)].llm>>
          /\ audit.built = log[Len(log)].serial
          /\ audit.madeFrom = <<log[Len(log)].madeFrom>>

\* C22: three getLLM calls returned: the second read a configuration that differs
\* from the first's in the temperature only and got a new instance, the third
\* read the second's configuration again and got the second's instance
C22_Witness ==
  LET log == audit.log
  IN /\ Len(log) = 3
     /\ log[1].read.temperature # log[2].read.temperature
     /\ [log[1].read EXCEPT !.temperature = Null] = [log[2].read EXCEPT !.temperature = Null]
     /\ log[1].serial = 1
     /\ log[2].serial = 2
     /\ log[3].read = log[2].read
     /\ log[3].serial = 2

\* the getDefaultAIConfig calls about to return a configuration
Returning == {p \in Callers : readers[p].pc = "return"}

\* C23: a call is served from the cache only when the age of the cached
\* configuration, now - cachedAtMs, is at most the TTL; and the configuration a
\* call returns was read from the store no earlier than one TTL before the call
\* started.
C23_ServedWithinTtl ==
  \A p \in Returning :
    LET r == readers[p]
        ttl == getCacheTtlMs(AI_CONFIG_CACHE_MS)
    IN /\ r.hit => r.now - r.origin.startedAt <= ttl
       /\ r.origin.readAt >= r.now - ttl

\* C23: with a TTL of 2 ms a call is served from the cache a configuration whose
\* age is exactly the TTL, while another call is reading the store
C23_Witness ==
  /\ getCacheTtlMs(AI_CONFIG_CACHE_MS) = 2
  /\ \E p \in Returning, q \in Callers :
       /\ readers[p].hit
       /\ readers[p].now - readers[p].origin.startedAt = 2
       /\ readers[q].pc = "cache"

\* the calls about to return that started after the last update of the stored
\* configuration and the invalidation that followed it
ReturningAfterInvalidation ==
  {p \in Returning : audit.writes > 0 /\ readers[p].after}

\* C24 as stated: a call that starts after the update and the invalidation
\* returns the updated configuration
C24_CallsAfterInvalidationSeeUpdate ==
  \A p \in ReturningAfterInvalidation : readers[p].config = configRow

\* C24 as amended: a call that starts after the update and the invalidation
\* returns the updated configuration, or is served, within one TTL of its start,
\* what a refresh that was in flight at the invalidation has cached
C24_StaleOnlyFromRefreshInFlight ==
  \A p \in ReturningAfterInvalidation :
    LET r == readers[p]
    IN \/ r.config = configRow
       \/ /\ r.hit
          /\ r.origin.raced
          /\ r.now - r.origin.startedAt <= getCacheTtlMs(AI_CONFIG_CACHE_MS)

\* C24: a call that started after the update and the invalidation is served the
\* configuration from before the update, cached by a refresh that was in flight
C24_Witness ==
  \E p \in ReturningAfterInvalidation :
    /\ readers[p].hit
    /\ readers[p].origin.raced
    /\ readers[p].config # configRow

\* the least integer that is at least a / b, for b > 0
LeastAtLeast(a, b) == CHOOSE c \in 0..a : c * b >= a /\ (c = 0 \/ (c - 1) * b < a)

\* x limited to lo..hi
Clamp(x, lo, hi) == IF x < lo THEN lo ELSE IF x > hi THEN hi ELSE x

\* C25: in a queryAcrossKnowledgeBases call over n >= 2 distinct collections,
\* topK is the clamped global top-k, every collection is searched with
\* k = clamp(ceil(2 * topK / n), 2, 8), and n * k >= topK.
C25_PerCollectionKFillsThePool ==
  (call.op = "across" /\ Len(call.unique) >= 2) =>
    LET n == Len(call.unique)
        setting == EnvNumber(env.RAG_TOP_K, 4)
        topK == IF setting.fin THEN Clamp(setting.n, 2, 12) ELSE 4
        k == Clamp(LeastAtLeast(2 * topK, n), 2, 8)
    IN /\ call.topK = topK
       /\ n * k >= topK
       /\ \A i \in DOMAIN call.searches : call.searches[i].k = k
       /\ call.retrieved =>
            {call.searches[i].kb : i \in DOMAIN call.searches} = Range(call.unique)

\* C25: a call over two collections with topK = 12 has searched both with the
\* upper limit k = 8 (ceil(24 / 2) = 12), which still fills the pool
C25_Witness ==
  /\ call.op = "across"
  /\ Len(call.unique) = 2
  /\ call.topK = 12
  /\ call.retrieved
  /\ Len(call.searches) = 2
  /\ \A i \in DOMAIN call.searches : call.searches[i].k = 8

\* the j-th smallest element of a set of numbers
Nth(S, j) == CHOOSE x \in S : Cardinality({y \in S : y <= x}) = j

\* C26: sources[i].idx = i + 1 for every 0-based position i; the sources are in
\* the order in which their keys first occur in the results, the j-th source
\* being built from the j-th result that brings a new key; and there are never
\* more sources than results.  The sources section lists them in that order.
C26_SourcesNumberedInFirstSeenOrder ==
  Scoped =>
    LET results == call.results
        sources == call.sources
        names == loadDocumentNames(DocumentIds, documents)
        first == FirstOfKey(results)
    IN /\ Len(sources) <= Len(results)
       /\ DOMAIN sources = 1..Cardinality(first)
       /\ \A j \in DOMAIN sources :
            /\ sources[j].idx = j
            /\ sources[j].label = SourceLabel(results[Nth(first, j)].doc, names)
       /\ \A j \in DOMAIN sources :
            \E at \in DOMAIN formatSourcesSection(sources) :
              /\ formatSourcesSection(sources)[at] = "- Source "
              /\ formatSourcesSection(sources)[at + 1] = ToString(j)
              /\ \A h \in DOMAIN sources : h < j =>
                   \E before \in 1..(at - 1) :
                     /\ formatSourcesSection(sources)[before] = "- Source "
                     /\ formatSourcesSection(sources)[before + 1] = ToString(h)

\* C26: of three results the first two share a key and the third brings a new
\* one: two sources, numbered 1 and 2, the second built from the third result
C26_Witness ==
  /\ Scoped
  /\ Len(call.results) = 3
  /\ FirstOfKey(call.results) = {1, 3}
  /\ Len(call.sources) = 2
  /\ call.sources[2].idx = 2
  /\ call.sources[1].label # call.sources[2].label

\* the URL of an annotation: the one at its top when it has one, else the one
\* nested under url_citation, else none
UrlOf(ann) ==
  IF ann.url # Null THEN ann.url ELSE IF ann.nestedUrl # Null THEN ann.nestedUrl ELSE <<>>

\* the url citation annotations of the message output items of a body
CitingAnnotations(body) ==
  IF ~body.isRecord THEN {}
  ELSE {body.output[i].content[j].annotations[k] :
          <<i, j, k>> \in
            {x \in (DOMAIN body.output) \X (1..1) \X (1..3) :
               /\ body.output[x[1]].type = "message"
               /\ x[2] \in DOMAIN body.output[x[1]].content
               /\ x[3] \in DOMAIN body.output[x[1]].content[x[2]].annotations
               /\ body.output[x[1]].content[x[2]].annotations[x[3]].type
                    \in {"url_citation", "url-citation"}}}

C28_TrimIsAHardCut ==
  /\ call.pc \in {"trimmed", "trimmed twice"} =>
       /\ call.text \in {Null, <<>>} => call.once = Null
       /\ (call.text \notin {Null, <<>>} /\ call.maxChars.fin /\ call.maxChars.n > 0) =>
            /\ call.once # Null
            /\ \/ Len(call.once) = Len(call.text) /\ Len(call.text) <= call.maxChars.n
               \/ Len(call.once) = call.maxChars.n /\ call.maxChars.n <= Len(call.text)
            /\ \A i \in DOMAIN call.once : call.once[i] = call.text[i]
  /\ call.pc = "trimmed twice" => call.twice = call.once

\* C28: a text of MaxText characters is cut to MaxText - 1 characters, and
\* trimmed again
C28_Witness ==
  /\ call.pc = "trimmed twice"
  /\ call.text # Null
  /\ Len(call.text) = MaxText
  /\ call.maxChars = Finite(MaxText - 1)
  /\ Len(call.once) = MaxText - 1
  /\ call.twice = call.once

\* the rows a complete ingest of a document stores, in order
RowsOf(kbId, doc) ==
  [j \in DOMAIN doc.text |->
     [kb_id |-> kbId, content |-> <<doc.text[j]>>,
      metadata |-> [documentId |-> doc.id, fileName |-> doc.fileName,
                    sourceUrl |-> <<"/knowledge-bases/", kbId, "/documents/">>
                                  \o doc.id \o <<"/file">>],
      embedding |-> <<1, 0>>]]

\* the bag of the elements of a sequence
BagOf(s) == [r \in Range(s) |-> Cardinality({i \in DOMAIN s : s[i] = r})]

\* the ingest of the current document has failed and not yet been caught
IngestFailed == call.pc = "thrown" /\ call.error \in {"ensure", "embed", "connect", "insert"}

\* C29: when the insert of the k-th chunk of an ingest call fails, the call
\* fails with that error, the table is the one at the time of the call plus the
\* first k - 1 chunks of the call, and the rows of the other collections are
\* as they were; when the call fails earlier (the embedding among these), no
\* chunk of the call is stored.
C29_IngestKeepsTheChunksBeforeTheFailure ==
  IngestFailed =>
    LET k == call.failedAt
        rows == RowsOf(call.kbId, call.docs[call.at])
    IN /\ k > 0 <=> call.error = "insert"
       /\ k > 0 => /\ k \in DOMAIN rows
                   /\ store = call.before (+) BagOf(SubSeq(rows, 1, k - 1))
       /\ k = 0 => store = call.before
       /\ \A r \in BagToSet(store) \cup BagToSet(call.before) :
            r.kb_id # call.kbId => CopiesIn(r, store) = CopiesIn(r, call.before)

\* C29: the insert of the second chunk fails: the first chunk stays in the
\* collection, beside the rows of another collection
C29_Witness ==
  /\ IngestFailed
  /\ call.error = "insert"
  /\ call.failedAt = 2
  /\ CopiesIn(RowsOf(call.kbId, call.docs[call.at])[1], store) = 1
  /\ CopiesIn(RowsOf(call.kbId, call.docs[call.at])[2], store) = 0
  /\ \E r \in BagToSet(store) : r.kb_id # call.kbId

\* the call in flight is an upload or a reindex
InBatch == call.pc \in {"findKb", "delete", "loop", "save", "ensure", "embed", "connect",
                        "insert", "thrown", "returned"}
           \/ (call.pc = "done" /\ call.status > 0)

Succeeded == IF call.op = "upload" THEN Len(call.uploadedDocuments) ELSE call.reindexed

=============================================================================
